---- MODULE Spec2Model ----
(***************************************************************************)
(* Review-analysis pipeline: the three stage handlers (preprocessing,      *)
(* profanity check, sentiment analysis), the orchestrator                  *)
(* EventDrivenServerlessReviewAnalysis and the batch driver                *)
(* FullDatasetProcessor, over the blob store, the review table and the     *)
(* user table.                                                             *)
(***************************************************************************)
EXTENDS Integers, Sequences, FiniteSets, TLC

\* ---------------------------------------------------------------- bounds
MaxRuns == 3
MaxTime == 1
MaxFailures == 1
MaxConcRuns == 2
MaxMalformedRuns == 1
MaxChainRuns == 1
MaxBatch == 2
MaxWords == 3
MaxProfanityWords == 3
MaxSentimentWords == 3
MaxBodyWords == 2

\* ------------------------------------------------------- text as char seqs
\* A text is a sequence of one-character strings.
Letters ==
    { "a", "b", "c", "d", "e", "f", "g", "h", "i", "j", "k", "l", "m",
      "n", "o", "p", "q", "r", "s", "t", "u", "v", "w", "x", "y", "z" }

LowerOf ==
    ("A" :> "a") @@ ("B" :> "b") @@ ("C" :> "c") @@ ("D" :> "d") @@ ("E" :> "e") @@ ("F" :> "f") @@
    ("G" :> "g") @@ ("H" :> "h") @@ ("I" :> "i") @@ ("J" :> "j") @@ ("K" :> "k") @@ ("L" :> "l") @@
    ("M" :> "m") @@ ("N" :> "n") @@ ("O" :> "o") @@ ("P" :> "p") @@ ("Q" :> "q") @@ ("R" :> "r") @@
    ("S" :> "s") @@ ("T" :> "t") @@ ("U" :> "u") @@ ("V" :> "v") @@ ("W" :> "w") @@ ("X" :> "x") @@
    ("Y" :> "y") @@ ("Z" :> "z")

PROFANITY_WORDS ==
    { <<"d", "a", "m", "n">>, <<"h", "e", "l", "l">>, <<"c", "r", "a", "p">>,
      <<"s", "h", "i", "t">>, <<"f", "u", "c", "k">>, <<"f", "u", "c", "k", "i", "n", "g">>,
      <<"f", "u", "c", "k", "e", "d">>, <<"b", "i", "t", "c", "h">>, <<"b", "a", "s", "t", "a", "r", "d">>,
      <<"a", "s", "s", "h", "o", "l", "e">>, <<"a", "s", "s">>, <<"p", "i", "s", "s">>,
      <<"s", "u", "c", "k">>, <<"s", "u", "c", "k", "s">>, <<"s", "u", "c", "k", "e", "d">>,
      <<"s", "t", "u", "p", "i", "d">>, <<"i", "d", "i", "o", "t">>, <<"m", "o", "r", "o", "n">>,
      <<"d", "u", "m", "b">>, <<"h", "a", "t", "e">>, <<"t", "e", "r", "r", "i", "b", "l", "e">>,
      <<"a", "w", "f", "u", "l">>, <<"h", "o", "r", "r", "i", "b", "l", "e">>, <<"d", "i", "s", "g", "u", "s", "t", "i", "n", "g">>,
      <<"p", "a", "t", "h", "e", "t", "i", "c">>, <<"w", "o", "r", "t", "h", "l", "e", "s", "s">>, <<"u", "s", "e", "l", "e", "s", "s">>,
      <<"g", "a", "r", "b", "a", "g", "e">>, <<"t", "r", "a", "s", "h">>, <<"p", "i", "e", "c", "e", " ", "o", "f", " ", "s", "h", "i", "t">>,
      <<"b", "u", "l", "l", "s", "h", "i", "t">> }

stop_words ==
    { <<"i">>, <<"m", "e">>, <<"m", "y">>, <<"m", "y", "s", "e", "l", "f">>,
      <<"w", "e">>, <<"o", "u", "r">>, <<"o", "u", "r", "s">>, <<"o", "u", "r", "s", "e", "l", "v", "e", "s">>,
      <<"y", "o", "u">>, <<"y", "o", "u", "r">>, <<"y", "o", "u", "r", "s">>, <<"y", "o", "u", "r", "s", "e", "l", "f">>,
      <<"y", "o", "u", "r", "s", "e", "l", "v", "e", "s">>, <<"h", "e">>, <<"h", "i", "m">>, <<"h", "i", "s">>,
      <<"h", "i", "m", "s", "e", "l", "f">>, <<"s", "h", "e">>, <<"h", "e", "r">>, <<"h", "e", "r", "s">>,
      <<"h", "e", "r", "s", "e", "l", "f">>, <<"i", "t">>, <<"i", "t", "s">>, <<"i", "t", "s", "e", "l", "f">>,
      <<"t", "h", "e", "y">>, <<"t", "h", "e", "m">>, <<"t", "h", "e", "i", "r">>, <<"t", "h", "e", "i", "r", "s">>,
      <<"t", "h", "e", "m", "s", "e", "l", "v", "e", "s">>, <<"w", "h", "a", "t">>, <<"w", "h", "i", "c", "h">>, <<"w", "h", "o">>,
      <<"w", "h", "o", "m">>, <<"t", "h", "i", "s">>, <<"t", "h", "a", "t">>, <<"t", "h", "e", "s", "e">>,
      <<"t", "h", "o", "s", "e">>, <<"a", "m">>, <<"i", "s">>, <<"a", "r", "e">>,
      <<"w", "a", "s">>, <<"w", "e", "r", "e">>, <<"b", "e">>, <<"b", "e", "e", "n">>,
      <<"b", "e", "i", "n", "g">>, <<"h", "a", "v", "e">>, <<"h", "a", "s">>, <<"h", "a", "d">>,
      <<"h", "a", "v", "i", "n", "g">>, <<"d", "o">>, <<"d", "o", "e", "s">>, <<"d", "i", "d">>,
      <<"d", "o", "i", "n", "g">>, <<"a">>, <<"a", "n">>, <<"t", "h", "e">>,
      <<"a", "n", "d">>, <<"b", "u", "t">>, <<"i", "f">>, <<"o", "r">>,
      <<"b", "e", "c", "a", "u", "s", "e">>, <<"a", "s">>, <<"u", "n", "t", "i", "l">>, <<"w", "h", "i", "l", "e">>,
      <<"o", "f">>, <<"a", "t">>, <<"b", "y">>, <<"f", "o", "r">>,
      <<"w", "i", "t", "h">>, <<"t", "h", "r", "o", "u", "g", "h">>, <<"d", "u", "r", "i", "n", "g">>, <<"b", "e", "f", "o", "r", "e">>,
      <<"a", "f", "t", "e", "r">>, <<"a", "b", "o", "v", "e">>, <<"b", "e", "l", "o", "w">>, <<"u", "p">>,
      <<"d", "o", "w", "n">>, <<"i", "n">>, <<"o", "u", "t">>, <<"o", "n">>,
      <<"o", "f", "f">>, <<"o", "v", "e", "r">>, <<"u", "n", "d", "e", "r">>, <<"a", "g", "a", "i", "n">>,
      <<"f", "u", "r", "t", "h", "e", "r">>, <<"t", "h", "e", "n">>, <<"o", "n", "c", "e">> }

Whitespace == {" ", "\t", "\n"}

\* str.lower()
lower(text) ==
    [i \in 1..Len(text) |->
        IF text[i] \in DOMAIN LowerOf THEN LowerOf[text[i]] ELSE text[i]]

\* Python's `word in text`
IsSubstring(word, text) ==
    \E i \in 1..(Len(text) - Len(word) + 1) :
        SubSeq(text, i, i + Len(word) - 1) = word

\* re.sub(r'[^a-zA-Z\s]', '', text)
StripNonLetters(text) ==
    SelectSeq(text, LAMBDA c : c \in Letters \cup DOMAIN LowerOf \cup Whitespace)

\* length of the leading run of non-whitespace characters
LeadingRun(text) ==
    LET stops == {i \in 1..Len(text) : text[i] \in Whitespace}
    IN  IF stops = {} THEN Len(text)
        ELSE (CHOOSE i \in stops : \A j \in stops : i <= j) - 1

RECURSIVE split(_)
\* str.split()
split(text) ==
    IF text = <<>> THEN <<>>
    ELSE IF Head(text) \in Whitespace THEN split(Tail(text))
    ELSE LET n == LeadingRun(text)
         IN  <<SubSeq(text, 1, n)>> \o split(SubSeq(text, n + 1, Len(text)))

\* a filter that also keeps tokens of two characters
preprocess_text_min2(text) ==
    IF text = <<>> THEN <<>>
    ELSE SelectSeq(split(StripNonLetters(lower(text))),
                   LAMBDA token : token \notin stop_words /\ Len(token) >= 2)

\* preprocess_text on its fallback path (whitespace tokens, no lemmatizer)
preprocess_text(text) ==
    IF text = <<>> THEN <<>>
    ELSE SelectSeq(split(StripNonLetters(lower(text))),
                   LAMBDA token : token \notin stop_words /\ Len(token) > 2)

\* ------------------------------------- preprocessing module state
VARIABLES
    NLTK_AVAILABLE, \* the `import nltk` block at module load succeeded
    stopwords_ok,   \* stopwords.words('english') could be read at module load
    punkt_ok,       \* word_tokenize works when called
    wordnet_ok      \* lemmatizer.lemmatize works when called

nltk == <<NLTK_AVAILABLE, stopwords_ok, punkt_ok, wordnet_ok>>

\* entries of NLTK's English stop-word corpus that the fallback list lacks
nltk_only_stop_words ==
    { <<"n", "o", "t">>, <<"t", "o", "o">>, <<"v", "e", "r", "y">>, <<"c", "a", "n">>,
      <<"w", "i", "l", "l">>, <<"j", "u", "s", "t">>, <<"n", "o", "w">>, <<"t", "o">>,
      <<"f", "r", "o", "m">>, <<"h", "o", "w">>, <<"a", "l", "l">>, <<"a", "n", "y">> }

\* the module-level stop_words in force
stop_words_loaded ==
    IF NLTK_AVAILABLE /\ stopwords_ok THEN stop_words \cup nltk_only_stop_words
    ELSE stop_words

\* word_tokenize on text that holds letters and whitespace only
word_tokenize(text) == split(text)

\* WordNetLemmatizer.lemmatize with the default part of speech: the noun
\* rule that detaches a plural s
lemmatize(token) ==
    IF Len(token) > 3 /\ token[Len(token)] = "s" /\ token[Len(token) - 1] # "s"
    THEN SubSeq(token, 1, Len(token) - 1)
    ELSE token

\* values a JSON payload can hold where a text is expected
PyStr(chars) == [type |-> "str", value |-> chars]
PyInt(n) == [type |-> "int", value |-> n]
PyList(items) == [type |-> "list", value |-> items]
PyNone == [type |-> "NoneType", value |-> <<>>]

\* Python truth value
truthy(v) ==
    CASE v.type = "NoneType" -> FALSE
      [] v.type = "int" -> v.value # 0
      [] OTHER -> v.value # <<>>

\* a guard that tests the truth value alone
is_text_truthy_only(v) == truthy(v)

\* the negation of `not text or not isinstance(text, str)`
is_text(v) == truthy(v) /\ v.type = "str"

\* try blocks that catch only the tokenizer's exception
Guarded_tokenizer_only == {"word_tokenize"}

\* the calls of preprocess_text that sit in a try block with a bare except
Guarded == {"word_tokenize", "lemmatize"}

\* the calls of preprocess_text(v) that raise, in call order
raising_calls(v) ==
    IF ~is_text(v) THEN {}
    ELSE IF v.type # "str" THEN {"lower"}
    ELSE LET cleaned == StripNonLetters(lower(v.value))
             tokens == IF NLTK_AVAILABLE /\ punkt_ok THEN word_tokenize(cleaned)
                       ELSE split(cleaned)
             kept == SelectSeq(tokens,
                        LAMBDA token : token \notin stop_words_loaded /\ Len(token) > 2)
         IN  (IF NLTK_AVAILABLE /\ ~punkt_ok THEN {"word_tokenize"} ELSE {})
                \cup (IF NLTK_AVAILABLE /\ ~wordnet_ok /\ kept # <<>>
                      THEN {"lemmatize"} ELSE {})

\* preprocess_text(v) under the module state: whether it raised, the tokens
\* it returned, whether the lemmatizer produced them
preprocess_text_call(v) ==
    IF raising_calls(v) \ Guarded # {}
    THEN [raised |-> TRUE, tokens |-> <<>>, lemmatized |-> FALSE, returned |-> FALSE]
    ELSE IF ~is_text(v)
    THEN [raised |-> FALSE, tokens |-> <<>>, lemmatized |-> FALSE, returned |-> TRUE]
    ELSE IF ~NLTK_AVAILABLE
    THEN [raised |-> FALSE, tokens |-> preprocess_text(v.value), lemmatized |-> FALSE,
          returned |-> TRUE]
    ELSE LET cleaned == StripNonLetters(lower(v.value))
             tokens == IF punkt_ok THEN word_tokenize(cleaned) ELSE split(cleaned)
             kept == SelectSeq(tokens,
                        LAMBDA token : token \notin stop_words_loaded /\ Len(token) > 2)
         IN  [raised |-> FALSE,
              tokens |-> IF wordnet_ok THEN [i \in 1..Len(kept) |-> lemmatize(kept[i])]
                         ELSE kept,
              lemmatized |-> wordnet_ok,
              returned |-> TRUE]

\* a match on whole whitespace-separated words only
check_profanity_whole_words(text) ==
    IF text = <<>> THEN {}
    ELSE {word \in PROFANITY_WORDS :
            \E i \in 1..Len(split(lower(text))) : split(lower(text))[i] = word}

\* check_profanity: the vocabulary entries found in the raw text
check_profanity(text) ==
    IF text = <<>> THEN {}
    ELSE {word \in PROFANITY_WORDS : IsSubstring(word, lower(text))}

\* check_profanity_in_tokens: the tokens that are vocabulary entries
check_profanity_in_tokens(tokens) ==
    {lower(tokens[i]) : i \in {j \in 1..Len(tokens) : lower(tokens[j]) \in PROFANITY_WORDS}}

\* dict.get(key, default): a dict is a record, a missing key is a missing field
get(d, key, default) == IF key \in DOMAIN d THEN d[key] ELSE default

\* review_data.get('reviewText', '') / review_data.get('summary', '')
review_text(review) == get(review, "reviewText", <<>>)
summary_text(review) == get(review, "summary", <<>>)

\* ---------------------------------- profanity module state, result lists
VARIABLES
    hashseed        \* the string-hash seed of the Python process

Seeds == {0, 1}

Range(seq) == {seq[i] : i \in 1..Len(seq)}

Reverse(seq) == [i \in 1..Len(seq) |-> seq[Len(seq) + 1 - i]]

RECURSIVE SetToSeq(_)
\* the elements of a set in one fixed order
SetToSeq(S) ==
    IF S = {} THEN <<>>
    ELSE LET x == CHOOSE y \in S : TRUE IN <<x>> \o SetToSeq(S \ {x})

\* one order in which the set PROFANITY_WORDS is iterated
VocabularyOrder == SetToSeq(PROFANITY_WORDS)

\* the order in which a set of strings is iterated: it follows the string
\* hashes, which the process seeds when it starts
iterate(S) ==
    SelectSeq(IF hashseed = 0 THEN VocabularyOrder ELSE Reverse(VocabularyOrder),
              LAMBDA word : word \in S)

\* check_profanity(v): (has_profanity, found_profanity)
check_profanity_result(v) ==
    IF ~is_text(v) THEN [has |-> FALSE, words |-> <<>>]
    ELSE LET found_profanity == iterate(check_profanity(v.value))
         IN  [has |-> Len(found_profanity) > 0, words |-> found_profanity]

\* check_profanity_in_tokens(tokens): (has_profanity, found_profanity)
check_profanity_in_tokens_result(tokens) ==
    LET found_profanity ==
            SelectSeq([i \in 1..Len(tokens) |-> lower(tokens[i])],
                      LAMBDA token : token \in PROFANITY_WORDS)
    IN  [has |-> Len(found_profanity) > 0, words |-> found_profanity]

\* `all_profanity_words = list(set(...))` for a review made of the body v
all_profanity_words_result(v, tokens) ==
    LET found_profanity ==
            iterate(Range(check_profanity_result(v).words)
                        \cup Range(check_profanity_in_tokens_result(tokens).words))
    IN  [has |-> Len(found_profanity) > 0, words |-> found_profanity]

\* all_profanity_words of the profanity-check handler
all_profanity_words(review) ==
    check_profanity(review_text(review))
        \cup check_profanity_in_tokens(preprocess_text(review_text(review)))
        \cup check_profanity(summary_text(review))
        \cup check_profanity_in_tokens(preprocess_text(summary_text(review)))

\* has_any_profanity of the profanity-check handler
has_any_profanity(review) ==
    \/ check_profanity(review_text(review)) # {}
    \/ check_profanity_in_tokens(preprocess_text(review_text(review))) # {}
    \/ check_profanity(summary_text(review)) # {}
    \/ check_profanity_in_tokens(preprocess_text(summary_text(review))) # {}

\* ------------------------------------------------------------ inputs
\* words that texts given to preprocess_text are made of
Words ==
    { <<"T", "h", "e">>,
      <<"n", "o", "t">>,
      <<"c", "a", "t", "s">>,
      <<"g", "o">>,
      <<"i", "t", "'", "s">>,
      <<"4", "2">>,
      <<"r", "e", "-", "u", "s", "e">>,
      <<"g", "l", "a", "s", "s">> }

Separators == {<<" ">>, <<"\n", " ">>}

RECURSIVE TextsOf(_)
\* the texts of at most n words
TextsOf(n) ==
    IF n = 0 THEN {<<>>}
    ELSE LET shorter == TextsOf(n - 1)
         IN  shorter \cup {IF t = <<>> THEN w ELSE t \o sep \o w :
                              t \in shorter, sep \in Separators, w \in Words}

\* words that texts given to check_profanity are made of
ProfanityTextWords ==
    { <<"g", "l", "a", "s", "s">>,
      <<"H", "e", "l", "l", "o">>,
      <<"d", "a", "m", "n">>,
      <<"n", "i", "c", "e">> }

RECURSIVE ProfanityTextsOf(_)
\* the texts of at most n of these words
ProfanityTextsOf(n) ==
    IF n = 0 THEN {<<>>}
    ELSE LET shorter == ProfanityTextsOf(n - 1)
         IN  shorter \cup {IF t = <<>> THEN w ELSE t \o sep \o w :
                              t \in shorter, sep \in Separators, w \in ProfanityTextWords}

\* the values check_profanity is called with
ProfanityValues ==
    {PyStr(t) : t \in ProfanityTextsOf(MaxProfanityWords)} \cup {PyNone, PyInt(7)}

\* words that texts given to the sentiment functions are made of
SentimentTextWords ==
    { <<"G", "o", "o", "d">>,
      <<"h", "a", "t", "e">>,
      <<"i", "t">> }

RECURSIVE SentimentTextsOf(_)
\* the texts of at most n of these words
SentimentTextsOf(n) ==
    IF n = 0 THEN {<<>>}
    ELSE LET shorter == SentimentTextsOf(n - 1)
         IN  shorter \cup {IF t = <<>> THEN w ELSE t \o <<" ">> \o w :
                              t \in shorter, w \in SentimentTextWords}

\* "This shit is garbage and I hate it"
ScenarioBody ==
    <<"T", "h", "i", "s", " ", "s", "h", "i", "t", " ", "i", "s", " ", "g", "a", "r", "b", "a", "g", "e", " ", "a", "n", "d", " ", "I", " ", "h", "a", "t", "e", " ", "i", "t">>

\* the reviews the sentiment handler scores
SentimentReviews ==
    [reviewerID : {"U1"}, asin : {"P1"},
     reviewText : SentimentTextsOf(MaxBodyWords) \cup {ScenarioBody},
     summary : SentimentTextsOf(1), overall : 1..5]

\* the texts and ratings analyze_sentiment_basic is called with
LexicalTexts == {PyStr(t) : t \in SentimentTextsOf(MaxSentimentWords)} \cup {PyNone}
LexicalRatings == {PyInt(r) : r \in 1..5} \cup {PyNone}

\* the values preprocess_text is called with
Values ==
    {PyStr(t) : t \in TextsOf(MaxWords)}
        \cup {PyNone, PyInt(0), PyInt(7), PyList(<<>>), PyList(<<"a">>)}

CleanBody == <<"G", "r", "e", "a", "t", " ", "p", "r", "o", "d", "u", "c", "t">>
ProfaneBody == <<"T", "h", "i", "s", " ", "s", "h", "i", "t", " ", "i", "s", " ", "g", "a", "r", "b", "a", "g", "e">>
Bodies == {CleanBody, ProfaneBody}
Authors == {"U1", "U2"}
Products == {"P1", "P2"}
Workers == {"w1", "w2"}
Kinds == {"chain", "batch"}

\* the review payloads submitted to the pipeline
Reviews ==
    [reviewerID : Authors, asin : Products, reviewText : Bodies,
     summary : {<<>>}, overall : {1}]

\* the review fields a payload may lack
OptionalFields == {"reviewText", "summary", "overall"}

\* the payload without the fields in `dropped`
Without(review, dropped) == [f \in DOMAIN review \ dropped |-> review[f]]

\* the empty payload {}
EmptyPayload == <<>>

\* payloads with any subset of the optional fields missing, and {}
Payloads ==
    {Without(r, d) : r \in {x \in Reviews : x.reviewerID = "U1" /\ x.asin = "P1"},
                     d \in SUBSET OptionalFields}
        \cup {EmptyPayload}

\* review_data.get('reviewerID', 'unknown') / review_data.get('asin', 'unknown')
reviewer_of(review) == get(review, "reviewerID", "unknown")
asin_of(review) == get(review, "asin", "unknown")

KeyOf(review) == <<reviewer_of(review), asin_of(review)>>

\* ------------------------------------------- the three stage handlers
Stages == {"preprocessing", "profanity", "sentiment"}
Forms == {"inline", "records", "both"}

\* events that carry neither the inline payload nor a record: {}, an empty
\* Records list, the payload under a key the handler does not look at
EmptyForms == {"empty", "no_records", "other_key"}

MaxInvocations == 2

\* the event key that carries the payload inline
InlineKey ==
    [preprocessing |-> "review_data", profanity |-> "processed_data",
     sentiment |-> "profanity_data"]

\* the `except Exception` of a handler
ServerError ==
    [statusCode |-> 500,
     body |-> [error |-> "Internal server error",
               message |-> "Failed to extract data from event"]]

\* the same for `raise ValueError("No valid ... data or S3 records found in event")`
NoDataError ==
    [statusCode |-> 500,
     body |-> [error |-> "Internal server error",
               message |-> "No valid data or S3 records found in event"]]

\* an extraction that looks at Records first
extract_records_first(event, key, object) ==
    IF "Records" \in DOMAIN event /\ Len(event["Records"]) > 0
    THEN [found |-> TRUE, data |-> object, source |-> event["Records"][1]]
    ELSE IF key \in DOMAIN event
    THEN [found |-> TRUE, data |-> event[key], source |-> "direct"]
    ELSE [found |-> FALSE, data |-> <<>>, source |-> "none"]

\* `if "<key>" in event: ... elif "Records" in event and len(event["Records"]) > 0:
\* s3.get_object(...) else: raise ValueError`; object is what the referenced blob holds
extract(event, key, object) ==
    IF key \in DOMAIN event
    THEN [found |-> TRUE, data |-> event[key], source |-> "direct"]
    ELSE IF "Records" \in DOMAIN event /\ Len(event["Records"]) > 0
    THEN [found |-> TRUE, data |-> object, source |-> event["Records"][1]]
    ELSE [found |-> FALSE, data |-> <<>>, source |-> "none"]

RECURSIVE join(_)
\* ' '.join(tokens)
join(tokens) ==
    IF tokens = <<>> THEN <<>>
    ELSE IF Len(tokens) = 1 THEN tokens[1]
    ELSE tokens[1] \o <<" ">> \o join(Tail(tokens))

\* one entry of processing_result: original, preprocessed, cleaned
text_entry(text) ==
    LET tokens == preprocess_text_call(PyStr(text)).tokens
    IN  [original |-> text, preprocessed |-> tokens, cleaned |-> join(tokens)]

\* the preprocessing handler after the extraction
preprocessing_response(review_data, source) ==
    IF DOMAIN review_data = {} THEN ServerError
    ELSE [statusCode |-> 200,
          body |-> [reviewText |-> text_entry(review_text(review_data)),
                    summary |-> text_entry(summary_text(review_data)),
                    overall_rating |-> get(review_data, "overall", "None"),
                    processing_metadata |->
                        [nltk_available |-> NLTK_AVAILABLE, original_s3_key |-> source]]]

\* a reading that never unwraps the body
body_of_whole(result) == result

\* `preprocessing_result['body'] if 'body' in preprocessing_result else preprocessing_result`
body_of(result) == IF "body" \in DOMAIN result THEN result["body"] ELSE result

\* `overall_rating = processed_data.get('original_review', {}).get('overall', 0)`
profanity_overall_rating(processed_data) ==
    get(get(processed_data, "original_review", <<>>), "overall", 0)

\* a verdict that also counts a low rating as profanity
combined_or_low_rating(body_raw, body_tokens, summary_raw, summary_tokens, overall_rating) ==
    body_raw \/ body_tokens \/ summary_raw \/ summary_tokens \/ overall_rating <= 2

\* `has_any_profanity = (review_has_profanity or review_tokens_has_profanity or
\* summary_has_profanity or summary_tokens_has_profanity)`
combined(body_raw, body_tokens, summary_raw, summary_tokens, overall_rating) ==
    body_raw \/ body_tokens \/ summary_raw \/ summary_tokens

\* a count of every match, repeated ones included
len_of_set_keeping_repeats(matched) == Len(matched)

\* len(list(set(matched)))
len_of_set(matched) == Cardinality(Range(matched))

\* the profanity-check handler after the extraction, without its user update
profanity_response(processed_data) ==
    IF DOMAIN processed_data = {} THEN ServerError
    ELSE LET preprocessing_body == body_of(get(processed_data, "preprocessing_result", <<>>))
             review_text_data == get(preprocessing_body, "reviewText", <<>>)
             summary_data == get(preprocessing_body, "summary", <<>>)
             review_profanity_words == check_profanity(get(review_text_data, "original", <<>>))
             review_tokens_profanity ==
                 check_profanity_in_tokens(get(review_text_data, "preprocessed", <<>>))
             summary_profanity_words == check_profanity(get(summary_data, "original", <<>>))
             summary_tokens_profanity ==
                 check_profanity_in_tokens(get(summary_data, "preprocessed", <<>>))
             words == review_profanity_words \cup review_tokens_profanity
                        \cup summary_profanity_words \cup summary_tokens_profanity
             \* the four lists the handler concatenates
             matched ==
                 check_profanity_result(PyStr(get(review_text_data, "original", <<>>))).words
                   \o check_profanity_in_tokens_result(
                          get(review_text_data, "preprocessed", <<>>)).words
                   \o check_profanity_result(PyStr(get(summary_data, "original", <<>>))).words
                   \o check_profanity_in_tokens_result(
                          get(summary_data, "preprocessed", <<>>)).words
             overall_rating == profanity_overall_rating(processed_data)
             has_any == combined(review_profanity_words # {}, review_tokens_profanity # {},
                                 summary_profanity_words # {}, summary_tokens_profanity # {},
                                 overall_rating)
         IN  [statusCode |-> 200,
              body |-> [has_profanity |-> has_any,
                        profanity_words |-> words,
                        profanity_count |-> len_of_set(matched),
                        overall_rating |-> overall_rating,
                        low_rating_negative |-> overall_rating <= 2,
                        clean_review |-> ~has_any]]

\* `overall_rating = profanity_data.get('original_review', {}).get('overall', 3.0)`
sentiment_overall_rating(profanity_data) ==
    get(get(profanity_data, "original_review", <<>>), "overall", 3)

\* 'positive' if overall_rating >= 4 else 'negative' if overall_rating <= 2 else 'neutral'
rating_based_sentiment(overall_rating) ==
    IF overall_rating >= 4 THEN "positive"
    ELSE IF overall_rating <= 2 THEN "negative"
    ELSE "neutral"

\* the sentiment handler after the extraction: its rating and profanity fields
sentiment_response(profanity_data) ==
    IF DOMAIN profanity_data = {} THEN ServerError
    ELSE LET profanity_body == body_of(get(profanity_data, "profanity_result", <<>>))
             overall_rating == sentiment_overall_rating(profanity_data)
         IN  [statusCode |-> 200,
              body |-> [overall_rating |-> overall_rating,
                        rating_based_sentiment |-> rating_based_sentiment(overall_rating),
                        is_clean_review |-> ~get(profanity_body, "has_profanity", FALSE),
                        has_profanity |-> get(profanity_body, "has_profanity", FALSE),
                        profanity_words |-> get(profanity_body, "profanity_words", {})]]

\* ------------------------------------------------------ sentiment scoring
VARIABLES
    TEXTBLOB_AVAILABLE  \* `from textblob import TextBlob` succeeded at module load

POSITIVE_WORDS ==
    { <<"e", "x", "c", "e", "l", "l", "e", "n", "t">>,
      <<"g", "r", "e", "a", "t">>,
      <<"a", "m", "a", "z", "i", "n", "g">>,
      <<"w", "o", "n", "d", "e", "r", "f", "u", "l">>,
      <<"f", "a", "n", "t", "a", "s", "t", "i", "c">>,
      <<"a", "w", "e", "s", "o", "m", "e">>,
      <<"s", "u", "p", "e", "r", "b">>,
      <<"o", "u", "t", "s", "t", "a", "n", "d", "i", "n", "g">>,
      <<"b", "r", "i", "l", "l", "i", "a", "n", "t">>,
      <<"p", "e", "r", "f", "e", "c", "t">>,
      <<"l", "o", "v", "e">>,
      <<"l", "o", "v", "e", "d">>,
      <<"l", "o", "v", "i", "n", "g">>,
      <<"g", "o", "o", "d">>,
      <<"n", "i", "c", "e">>,
      <<"b", "e", "s", "t">>,
      <<"b", "e", "t", "t", "e", "r">>,
      <<"h", "a", "p", "p", "y">>,
      <<"p", "l", "e", "a", "s", "e", "d">>,
      <<"s", "a", "t", "i", "s", "f", "i", "e", "d">>,
      <<"r", "e", "c", "o", "m", "m", "e", "n", "d">>,
      <<"r", "e", "c", "o", "m", "m", "e", "n", "d", "e", "d">>,
      <<"q", "u", "a", "l", "i", "t", "y">>,
      <<"b", "e", "a", "u", "t", "i", "f", "u", "l">>,
      <<"i", "m", "p", "r", "e", "s", "s", "i", "v", "e">>,
      <<"r", "e", "m", "a", "r", "k", "a", "b", "l", "e">>,
      <<"i", "n", "c", "r", "e", "d", "i", "b", "l", "e">>,
      <<"p", "h", "e", "n", "o", "m", "e", "n", "a", "l">>,
      <<"e", "x", "c", "e", "p", "t", "i", "o", "n", "a", "l">>,
      <<"m", "a", "r", "v", "e", "l", "o", "u", "s">>,
      <<"s", "p", "l", "e", "n", "d", "i", "d">>,
      <<"t", "e", "r", "r", "i", "f", "i", "c">>,
      <<"f", "a", "b", "u", "l", "o", "u", "s">>,
      <<"d", "e", "l", "i", "g", "h", "t", "f", "u", "l">> }

NEGATIVE_WORDS ==
    { <<"t", "e", "r", "r", "i", "b", "l", "e">>,
      <<"a", "w", "f", "u", "l">>,
      <<"h", "o", "r", "r", "i", "b", "l", "e">>,
      <<"b", "a", "d">>,
      <<"w", "o", "r", "s", "t">>,
      <<"h", "a", "t", "e">>,
      <<"h", "a", "t", "e", "d">>,
      <<"h", "a", "t", "i", "n", "g">>,
      <<"d", "i", "s", "a", "p", "p", "o", "i", "n", "t", "i", "n", "g">>,
      <<"d", "i", "s", "a", "p", "p", "o", "i", "n", "t", "e", "d">>,
      <<"p", "o", "o", "r">>,
      <<"u", "s", "e", "l", "e", "s", "s">>,
      <<"w", "o", "r", "t", "h", "l", "e", "s", "s">>,
      <<"g", "a", "r", "b", "a", "g", "e">>,
      <<"t", "r", "a", "s", "h">>,
      <<"d", "i", "s", "g", "u", "s", "t", "i", "n", "g">>,
      <<"p", "a", "t", "h", "e", "t", "i", "c">>,
      <<"a", "n", "n", "o", "y", "i", "n", "g">>,
      <<"f", "r", "u", "s", "t", "r", "a", "t", "i", "n", "g">>,
      <<"b", "r", "o", "k", "e", "n">>,
      <<"d", "e", "f", "e", "c", "t", "i", "v", "e">>,
      <<"c", "h", "e", "a", "p">>,
      <<"o", "v", "e", "r", "p", "r", "i", "c", "e", "d">>,
      <<"w", "a", "s", "t", "e">>,
      <<"r", "e", "g", "r", "e", "t">>,
      <<"a", "v", "o", "i", "d">>,
      <<"p", "r", "o", "b", "l", "e", "m", "s">>,
      <<"i", "s", "s", "u", "e", "s">>,
      <<"f", "a", "i", "l", "e", "d">>,
      <<"f", "a", "i", "l", "u", "r", "e">>,
      <<"n", "i", "g", "h", "t", "m", "a", "r", "e">>,
      <<"d", "i", "s", "a", "s", "t", "e", "r">>,
      <<"m", "e", "s", "s">>,
      <<"s", "u", "c", "k", "s">> }

\* Scores, confidences and weights are kept as exact fractions num/den in
\* lowest terms, den > 0.
RECURSIVE GCD(_, _)
GCD(a, b) == IF b = 0 THEN a ELSE GCD(b, a % b)

Frac(n, d) ==
    LET g == GCD(IF n < 0 THEN 0 - n ELSE n, d)
    IN  [num |-> n \div g, den |-> d \div g]

Zero == Frac(0, 1)
One == Frac(1, 1)

plus(x, y) == Frac(x.num * y.den + y.num * x.den, x.den * y.den)
times(x, y) == Frac(x.num * y.num, x.den * y.den)
\* x / y for y > 0
over(x, y) == Frac(x.num * y.den, x.den * y.num)
less(x, y) == x.num * y.den < y.num * x.den
leq(x, y) == x.num * y.den <= y.num * x.den
max(x, y) == IF less(x, y) THEN y ELSE x
min(x, y) == IF less(y, x) THEN y ELSE x
abs(x) == IF x.num < 0 THEN Frac(0 - x.num, x.den) ELSE x

Digits == {"0", "1", "2", "3", "4", "5", "6", "7", "8", "9"}

\* the characters \w matches
WordChars == Letters \cup DOMAIN LowerOf \cup Digits \cup {"_"}

\* re.findall(r'\b\w+\b', text): the maximal runs of word characters
findall_words(text) ==
    split([i \in 1..Len(text) |-> IF text[i] \in WordChars THEN text[i] ELSE " "])

\* sum(1 for word in words if word in S)
count_in(words, S) == Cardinality({i \in 1..Len(words) : words[i] \in S})

Labels == <<"positive", "negative", "neutral">>

\* the `if rating >= 4 ... elif rating <= 2 ... else` of the text-less branches
rated(rating, confidence) ==
    IF rating.type = "NoneType" THEN [sentiment |-> "neutral", confidence |-> Zero]
    ELSE IF rating.value >= 4 THEN [sentiment |-> "positive", confidence |-> confidence]
    ELSE IF rating.value <= 2 THEN [sentiment |-> "negative", confidence |-> confidence]
    ELSE [sentiment |-> "neutral", confidence |-> Frac(1, 2)]

\* a labelling that splits at zero
label_of_zero_threshold(sentiment_score, confidence) ==
    IF less(Zero, sentiment_score)
    THEN [sentiment |-> "positive", confidence |-> confidence]
    ELSE IF less(sentiment_score, Zero)
    THEN [sentiment |-> "negative", confidence |-> confidence]
    ELSE [sentiment |-> "neutral", confidence |-> confidence]

\* `if sentiment_score > 0.1 ... elif sentiment_score < -0.1 ... else`
label_of(sentiment_score, confidence) ==
    IF less(Frac(1, 10), sentiment_score)
    THEN [sentiment |-> "positive", confidence |-> confidence]
    ELSE IF less(sentiment_score, Frac(-1, 10))
    THEN [sentiment |-> "negative", confidence |-> confidence]
    ELSE [sentiment |-> "neutral", confidence |-> confidence]

\* analyze_sentiment_basic(text, rating)
analyze_sentiment_basic(text, rating) ==
    IF ~is_text(text) THEN rated(rating, Frac(7, 10))
    ELSE LET words == findall_words(lower(text.value))
             positive_count == count_in(words, POSITIVE_WORDS)
             negative_count == count_in(words, NEGATIVE_WORDS)
             total_sentiment_words == positive_count + negative_count
         IN  IF total_sentiment_words = 0 THEN rated(rating, Frac(6, 10))
             ELSE LET word_score == Frac(positive_count - negative_count, total_sentiment_words)
                      word_confidence ==
                          IF Len(words) > 0
                          THEN min(Frac(total_sentiment_words, Len(words)), One)
                          ELSE Zero
                      sentiment_score ==
                          IF rating.type = "NoneType" THEN word_score
                          ELSE over(plus(word_score, Frac(rating.value - 3, 2)), Frac(2, 1))
                      confidence ==
                          IF rating.type = "NoneType" THEN word_confidence
                          ELSE max(word_confidence, Frac(1, 2))
                  IN  label_of(sentiment_score, confidence)

\* What TextBlob(text).sentiment.polarity does: it raises, or gives a polarity
\* in [-1, 1]. The library decides which; every outcome below is possible.
Raises == [raised |-> TRUE, polarity |-> Zero]
Polarity(n, d) == [raised |-> FALSE, polarity |-> Frac(n, d)]
TextBlobOutcomes == {Raises, Polarity(-1, 1), Polarity(-1, 5), Polarity(1, 10), Polarity(1, 2)}

\* a TextBlob scoring that reports the polarity itself as the confidence
analyze_sentiment_textblob_signed(outcome) ==
    IF outcome.raised THEN [sentiment |-> "neutral", confidence |-> Zero]
    ELSE IF less(Frac(1, 10), outcome.polarity)
    THEN [sentiment |-> "positive", confidence |-> outcome.polarity]
    ELSE IF less(outcome.polarity, Frac(-1, 10))
    THEN [sentiment |-> "negative", confidence |-> outcome.polarity]
    ELSE [sentiment |-> "neutral", confidence |-> plus(One, outcome.polarity)]

\* analyze_sentiment_textblob(text), the library having done `outcome`
analyze_sentiment_textblob(outcome) ==
    IF outcome.raised THEN [sentiment |-> "neutral", confidence |-> Zero]
    ELSE IF less(Frac(1, 10), outcome.polarity)
    THEN [sentiment |-> "positive", confidence |-> abs(outcome.polarity)]
    ELSE IF less(outcome.polarity, Frac(-1, 10))
    THEN [sentiment |-> "negative", confidence |-> abs(outcome.polarity)]
    ELSE [sentiment |-> "neutral", confidence |-> plus(One, times(Frac(-1, 1), abs(outcome.polarity)))]

\* analyze_sentiment(text, rating)
analyze_sentiment(text, rating, outcome) ==
    IF TEXTBLOB_AVAILABLE
    THEN LET library == analyze_sentiment_textblob(outcome)
         IN  IF less(library.confidence, Frac(3, 10))
             THEN LET basic == analyze_sentiment_basic(text, rating)
                  IN  [sentiment |-> basic.sentiment,
                       confidence |-> max(library.confidence, basic.confidence)]
             ELSE library
    ELSE analyze_sentiment_basic(text, rating)

\* a maximum that keeps the last of the labels with the largest weight
first_max_keeps_last(sentiment_scores) ==
    LET largest == {i \in 1..Len(Labels) :
                      \A j \in 1..Len(Labels) :
                          leq(sentiment_scores[Labels[j]], sentiment_scores[Labels[i]])}
    IN  Labels[CHOOSE i \in largest : \A j \in largest : j <= i]

\* max(sentiment_scores, key=sentiment_scores.get): the first key, in the
\* order the dict was written, that has the largest value
first_max(sentiment_scores) ==
    LET largest == {i \in 1..Len(Labels) :
                      \A j \in 1..Len(Labels) :
                          leq(sentiment_scores[Labels[j]], sentiment_scores[Labels[i]])}
    IN  Labels[CHOOSE i \in largest : \A j \in largest : i <= j]

\* the sentiment handler's scoring of its text fields and their combination;
\* outcomes: what the library does on each of the four texts
sentiment_scoring(profanity_data, outcomes) ==
    LET preprocessing_body == body_of(get(profanity_data, "preprocessing_result", <<>>))
        review_text_data == get(preprocessing_body, "reviewText", <<>>)
        summary_data == get(preprocessing_body, "summary", <<>>)
        review_text_original == get(review_text_data, "original", <<>>)
        review_text_cleaned == get(review_text_data, "cleaned", <<>>)
        summary_original == get(summary_data, "original", <<>>)
        summary_cleaned == get(summary_data, "cleaned", <<>>)
        overall_rating == sentiment_overall_rating(profanity_data)
        review == analyze_sentiment(PyStr(review_text_original), PyInt(overall_rating),
                                    outcomes.review_text)
        summary == analyze_sentiment(PyStr(summary_original), PyInt(overall_rating),
                                     outcomes.summary)
        cleaned_review == analyze_sentiment(PyStr(review_text_cleaned), PyInt(overall_rating),
                                            outcomes.cleaned_review)
        cleaned_summary == analyze_sentiment(PyStr(summary_cleaned), PyInt(overall_rating),
                                             outcomes.cleaned_summary)
        review_weight == times(Frac(Len(review_text_original), 1), review.confidence)
        summary_weight == times(Frac(Len(summary_original), 1), summary.confidence)
        rating_weight == Frac(3, 10)
        total_weight == plus(plus(review_weight, summary_weight), rating_weight)
        vote(label, sentiment, weight) == IF sentiment = label THEN weight ELSE Zero
        sentiment_scores ==
            [label \in {"positive", "negative", "neutral"} |->
                plus(plus(vote(label, review.sentiment, review_weight),
                          vote(label, summary.sentiment, summary_weight)),
                     vote(label, rating_based_sentiment(overall_rating), rating_weight))]
        final_sentiment == first_max(sentiment_scores)
    IN  [sentiment |-> IF less(Zero, total_weight) THEN final_sentiment ELSE "neutral",
         confidence |-> IF less(Zero, total_weight)
                        THEN over(sentiment_scores[final_sentiment], total_weight)
                        ELSE Zero,
         detailed_analysis |->
             [review_text |-> review, summary |-> summary,
              cleaned_review |-> cleaned_review, cleaned_summary |-> cleaned_summary],
         analysis_method |-> IF TEXTBLOB_AVAILABLE THEN "textblob" ELSE "basic_word_list"]

\* the sentiment handler after the extraction: scoring, rating and profanity fields
sentiment_handler(profanity_data, outcomes) ==
    LET response == sentiment_response(profanity_data)
    IN  IF response.statusCode # 200 THEN response
        ELSE [statusCode |-> 200,
              body |-> sentiment_scoring(profanity_data, outcomes) @@ response.body]

\* a handler that falls back to the blob when the event carries nothing
lambda_handler_lenient(stage, event, object) ==
    LET x == extract(event, InlineKey[stage], object)
    IN  CASE stage = "preprocessing" ->
                preprocessing_response(IF x.found THEN x.data ELSE object, x.source)
          [] stage = "profanity" -> profanity_response(IF x.found THEN x.data ELSE object)
          [] stage = "sentiment" -> sentiment_response(IF x.found THEN x.data ELSE object)

\* lambda_handler of a stage: extraction, then the stage's computation
lambda_handler(stage, event, object) ==
    LET x == extract(event, InlineKey[stage], object)
    IN  IF ~x.found THEN NoDataError
        ELSE CASE stage = "preprocessing" -> preprocessing_response(x.data, x.source)
               [] stage = "profanity" -> profanity_response(x.data)
               [] stage = "sentiment" -> sentiment_response(x.data)

\* processed_data as the chain builds it for a review
processed_data_of(review) ==
    [review_id |-> KeyOf(review),
     preprocessing_result |-> preprocessing_response(review, "direct"),
     original_review |-> review]

\* profanity_data as the chain builds it for a review
profanity_data_of(review) ==
    [review_id |-> KeyOf(review),
     preprocessing_result |-> preprocessing_response(review, "direct"),
     profanity_result |-> profanity_response(processed_data_of(review)),
     original_review |-> review]

\* what a stage consumes for a review: the payload or the artifact built from it
stage_content(stage, review) ==
    CASE stage = "preprocessing" -> review
      [] stage = "profanity" -> processed_data_of(review)
      [] stage = "sentiment" -> profanity_data_of(review)

\* the event of an invocation of a stage in one of the forms
event_of(stage, form, review) ==
    CASE form = "inline" -> (InlineKey[stage] :> stage_content(stage, review))
      [] form = "records" -> ("Records" :> <<"key">>)
      [] form = "both" ->
            (InlineKey[stage] :> stage_content(stage, review)) @@ ("Records" :> <<"key">>)
      [] form = "empty" -> <<>>
      [] form = "no_records" -> ("Records" :> <<>>)
      [] form = "other_key" -> ("detail" :> stage_content(stage, review))

\* the verdict fields of a response: everything but the processing metadata
verdict(response) ==
    IF response.statusCode = 200
    THEN [statusCode |-> 200, body |-> Without(response.body, {"processing_metadata"})]
    ELSE [statusCode |-> response.statusCode, body |-> <<>>]

\* ------------------------------------------------------------------ state
VARIABLES
    users,          \* users table: reviewerID -> item
    reviews_table,  \* reviews table: review_id -> item
    s3,             \* blob store: the set of <<prefix, review_id>> keys written
    now,            \* int(time.time())
    pc,             \* per worker: position in its run
    kind,           \* per worker: "chain" (process_review_through_serverless_chain) or "batch" (process_single_review)
    rev,            \* per worker: review_data
    rid,            \* per worker: review_id
    cur,            \* per worker: current_count read from the users table
    presult,        \* per worker: profanity_result returned by the handler
    ret,            \* per worker: what its last run returned
    ufail,          \* per worker: a users-table call failed during its run
    rerun,          \* per worker: its review was already finalized when the run started
    pool,           \* the workers that take reviews
    runsLeft,       \* runs that may still be started
    failsLeft,      \* store / invocation failures that may still happen
    overlap,        \* some run started while another was in progress
    keys,           \* review keys submitted so far
    resub,          \* some review key was submitted twice
    inputs,         \* the payloads that may be submitted
    pfail,          \* per worker: a put of the orchestrator failed during its run
    content,        \* the review whose content direct handler invocations carry inline
    stored,         \* the review whose content the blob referenced by Records holds
    prev,           \* the handler invocation before the last one
    last,           \* the last handler invocation: stage, form, response
    arg,            \* the value preprocess_text is called with
    out,            \* what the call of preprocess_text gave
    library,        \* what TextBlob does on each text of the scored review
    sinput,         \* the review given to the sentiment scoring
    rating,         \* the rating given to analyze_sentiment_basic
    scored,         \* what the last sentiment call returned
    ssm,            \* the parameter store: name -> "stored" or "unreadable"
    config,         \* what the last configuration lookup returned
    found,          \* the last direct call of a profanity function: function, result
    prevfound,      \* the call before it
    profaneDone,    \* per kind and author: completed runs with a profane review
    stats,          \* self.stats of the batch processor
    futures,        \* the submitted calls of process_single_review: review_index -> locals
    results,        \* the result dicts collected by process_dataset_batch
    returned        \* process_dataset_batch has returned `results`

vars == <<users, reviews_table, s3, now, pc, kind, rev, rid, cur, presult,
          ret, ufail, rerun, pool, runsLeft, failsLeft, overlap, keys, resub, profaneDone,
          inputs, pfail, content, stored, prev, last, arg, out,
          found, prevfound, hashseed, TEXTBLOB_AVAILABLE, library, sinput, rating, scored,
          ssm, config, stats, futures, results, returned,
          NLTK_AVAILABLE, stopwords_ok, punkt_ok, wordnet_ok>>

store == <<users, reviews_table, s3>>
sentiment == <<TEXTBLOB_AVAILABLE, library, sinput, rating, scored>>
direct == <<content, stored, prev, last, arg, out, found, prevfound, hashseed, sentiment,
            ssm, config>>
batch == <<stats, futures, results, returned>>
ghost == <<pool, runsLeft, overlap, keys, resub, inputs, direct, nltk, batch>>

NoItem == [present |-> FALSE, profanity_count |-> 0, is_banned |-> FALSE, writer |-> "none"]
NoResult ==
    [statusCode |-> 0, has_profanity |-> FALSE, user_update |-> FALSE,
     new_profanity_count |-> 0, is_banned |-> FALSE, user_update_error |-> FALSE]
NoReview ==
    [reviewerID |-> "U1", asin |-> "P1", reviewText |-> <<>>, summary |-> <<>>, overall |-> 1]
NoId == <<"none", "none", 0>>

\* the state shared by every specification: empty stores, idle workers
NoStats ==
    [processed_reviews |-> 0, failed_reviews |-> 0, banned_users |-> 0,
     user_profanity_counts |-> <<>>]

\* no batch is being processed
NoBatch ==
    /\ stats = NoStats
    /\ futures = <<>>
    /\ results = <<>>
    /\ returned = FALSE

InitStores ==
    /\ users = [a \in Authors |-> NoItem]
    /\ reviews_table = <<>>
    /\ s3 = {}
    /\ now = 0
    /\ pc = [w \in Workers |-> "idle"]
    /\ kind = [w \in Workers |-> "chain"]
    /\ rev = [w \in Workers |-> NoReview]
    /\ rid = [w \in Workers |-> NoId]
    /\ cur = [w \in Workers |-> 0]
    /\ presult = [w \in Workers |-> NoResult]
    /\ ret = [w \in Workers |-> "none"]
    /\ ufail = [w \in Workers |-> FALSE]
    /\ pfail = [w \in Workers |-> FALSE]
    /\ rerun = [w \in Workers |-> FALSE]
    /\ overlap = FALSE
    /\ keys = {}
    /\ resub = FALSE
    /\ profaneDone = [k \in Kinds |-> [a \in Authors |-> 0]]

NoInvocation == [stage |-> "none", form |-> "none", response |-> <<>>]

NoFound == [fn |-> "none", result |-> [has |-> FALSE, words |-> <<>>]]

\* no profanity function is called on its own
NoProfanityCall ==
    /\ found = NoFound
    /\ prevfound = NoFound
    /\ hashseed = 0

\* what the library does on the four texts the handler scores; the cleaned
\* texts, whose scores the combination does not use, get a smaller choice
LibraryOutcomes ==
    [review_text : TextBlobOutcomes, summary : TextBlobOutcomes,
     cleaned_review : {Raises, Polarity(-1, 1)}, cleaned_summary : {Raises, Polarity(-1, 1)}]

NoLibrary ==
    [review_text |-> Raises, summary |-> Raises,
     cleaned_review |-> Raises, cleaned_summary |-> Raises]

NoScore == [fn |-> "none"]

\* the six configuration names
parameter_names ==
    {"reviews_bucket", "processed_bucket", "profanity_bucket",
     "sentiment_bucket", "reviews_table", "users_table"}

\* the fallback values
defaults ==
    [reviews_bucket |-> "review-analysis-reviews",
     processed_bucket |-> "review-analysis-processed",
     profanity_bucket |-> "review-analysis-profanity",
     sentiment_bucket |-> "review-analysis-sentiment",
     reviews_table |-> "review-analysis-reviews",
     users_table |-> "review-analysis-users"]

\* the value the parameter store holds for a name
parameter_value ==
    [reviews_bucket |-> "ssm-reviews-bucket",
     processed_bucket |-> "ssm-processed-bucket",
     profanity_bucket |-> "ssm-profanity-bucket",
     sentiment_bucket |-> "ssm-sentiment-bucket",
     reviews_table |-> "ssm-reviews-table",
     users_table |-> "ssm-users-table"]

\* a store in which every name can be read
Stored == [name \in parameter_names |-> "stored"]

NoConfig == [fn |-> "none"]

\* load_config_from_ssm: one try block around the loop over the six names
load_config_from_ssm(source) ==
    IF \A name \in parameter_names : source[name] = "stored"
    THEN [name \in parameter_names |-> parameter_value[name]]
    ELSE defaults

\* get_parameter(parameter_name) of a Lambda
get_parameter(source, parameter_name) ==
    IF source[parameter_name] = "stored" THEN parameter_value[parameter_name]
    ELSE defaults[parameter_name]

\* no sentiment function is called on its own
NoSentimentCall ==
    /\ TEXTBLOB_AVAILABLE = FALSE
    /\ library = NoLibrary
    /\ sinput = NoReview
    /\ rating = PyNone
    /\ scored = NoScore
    /\ ssm = Stored
    /\ config = NoConfig

NoOutcome == [raised |-> FALSE, tokens |-> <<>>, lemmatized |-> FALSE, returned |-> FALSE]

\* no handler is invoked directly, preprocess_text is not called on its own
NoDirectInvocation ==
    /\ content = EmptyPayload
    /\ stored = EmptyPayload
    /\ prev = NoInvocation
    /\ last = NoInvocation
    /\ arg = PyNone
    /\ out = NoOutcome
    /\ NoProfanityCall
    /\ NoSentimentCall

\* the Lambdas are deployed without the NLTK layer
NoNltk ==
    /\ NLTK_AVAILABLE = FALSE
    /\ stopwords_ok = FALSE
    /\ punkt_ok = FALSE
    /\ wordnet_ok = FALSE

\* the module states the preprocessing Lambda can load into: the NLTK data
\* is looked for only when the package imports
NltkLoaded ==
    /\ NLTK_AVAILABLE \in BOOLEAN
    /\ stopwords_ok \in {b \in BOOLEAN : b => NLTK_AVAILABLE}
    /\ punkt_ok \in {b \in BOOLEAN : b => NLTK_AVAILABLE}
    /\ wordnet_ok \in {b \in BOOLEAN : b => NLTK_AVAILABLE}

\* the module states of a deployed preprocessing Lambda: no NLTK layer, the
\* layer with its data, or the layer without the WordNet data
NltkDeployed ==
    /\ NLTK_AVAILABLE \in BOOLEAN
    /\ stopwords_ok = NLTK_AVAILABLE
    /\ punkt_ok = NLTK_AVAILABLE
    /\ wordnet_ok \in {b \in BOOLEAN : b => NLTK_AVAILABLE}

\* no orchestrator runs
NoPipeline ==
    /\ InitStores
    /\ pool = {}
    /\ runsLeft = 0
    /\ failsLeft = 0
    /\ inputs = {}

\* one orchestrator working through its reviews one after another
Init ==
    /\ NoBatch
    /\ InitStores
    /\ pool = {"w1"}
    /\ runsLeft = MaxRuns
    /\ failsLeft = MaxFailures
    /\ inputs = Reviews
    /\ NoDirectInvocation
    /\ NoNltk

\* several workers (pool threads, Lambda invocations) at the same time
InitConc ==
    /\ NoBatch
    /\ InitStores
    /\ pool = Workers
    /\ runsLeft = MaxConcRuns
    /\ failsLeft = MaxFailures
    /\ inputs = Reviews
    /\ NoDirectInvocation
    /\ NoNltk

\* one orchestrator, payloads with missing fields
InitMalformed ==
    /\ NoBatch
    /\ InitStores
    /\ pool = {"w1"}
    /\ runsLeft = MaxMalformedRuns
    /\ failsLeft = MaxFailures
    /\ inputs = Payloads
    /\ NoDirectInvocation
    /\ NoNltk

\* the blobs a Records reference may point at
EventBlobs ==
    {r \in Reviews : r.reviewerID = "U1" /\ r.asin = "P1"}
        \cup {Without(r, {"overall"}) : r \in {x \in Reviews : x.reviewerID = "U2" /\ x.asin = "P1"}}

\* the stage handlers invoked directly, on every payload and in every form
InitEvents ==
    /\ NoBatch
    /\ NoPipeline
    /\ NltkDeployed
    /\ content \in Payloads
    /\ stored \in EventBlobs \cup {content}
    /\ prev = NoInvocation
    /\ last = NoInvocation
    /\ arg = PyNone
    /\ out = NoOutcome
    /\ NoProfanityCall
    /\ NoSentimentCall

\* preprocess_text called on its own, on every value and in every module state
InitText ==
    /\ NoBatch
    /\ NoPipeline
    /\ NltkLoaded
    /\ content = EmptyPayload
    /\ stored = EmptyPayload
    /\ prev = NoInvocation
    /\ last = NoInvocation
    /\ arg \in Values
    /\ out = NoOutcome
    /\ NoProfanityCall
    /\ NoSentimentCall

\* the profanity functions called on their own, in processes that come and go
InitProfanity ==
    /\ NoBatch
    /\ NoPipeline
    /\ NoNltk
    /\ content = EmptyPayload
    /\ stored = EmptyPayload
    /\ prev = NoInvocation
    /\ last = NoInvocation
    /\ arg \in ProfanityValues
    /\ out = NoOutcome
    /\ found = NoFound
    /\ prevfound = NoFound
    /\ hashseed \in Seeds
    /\ NoSentimentCall

\* the sentiment handler called on the artifact the chain builds for a review
InitSentiment ==
    /\ NoBatch
    /\ NoPipeline
    /\ NoNltk
    /\ content = EmptyPayload
    /\ stored = EmptyPayload
    /\ prev = NoInvocation
    /\ last = NoInvocation
    /\ arg = PyNone
    /\ out = NoOutcome
    /\ NoProfanityCall
    /\ TEXTBLOB_AVAILABLE \in BOOLEAN
    /\ library \in (IF TEXTBLOB_AVAILABLE THEN LibraryOutcomes ELSE {NoLibrary})
    /\ sinput \in SentimentReviews
    /\ rating = PyNone
    /\ scored = NoScore
    /\ ssm = Stored
    /\ config = NoConfig

\* the configuration lookups against a parameter store that may fail per name
InitConfig ==
    /\ NoBatch
    /\ NoPipeline
    /\ NoNltk
    /\ content = EmptyPayload
    /\ stored = EmptyPayload
    /\ prev = NoInvocation
    /\ last = NoInvocation
    /\ arg = PyNone
    /\ out = NoOutcome
    /\ NoProfanityCall
    /\ TEXTBLOB_AVAILABLE = FALSE
    /\ library = NoLibrary
    /\ sinput = NoReview
    /\ rating = PyNone
    /\ scored = NoScore
    /\ ssm \in [parameter_names -> {"stored", "unreadable"}]
    /\ config = NoConfig

\* the handlers invoked one at a time with events of every shape, the
\* profanity-check handler writing to the users table
InitInvocations ==
    /\ NoBatch
    /\ InitStores
    /\ pool = {}
    /\ runsLeft = MaxInvocations
    /\ failsLeft = 0
    /\ inputs = {}
    /\ NoNltk
    /\ content \in Reviews
    /\ stored \in {r \in Reviews : r.asin = "P1"}
    /\ prev = NoInvocation
    /\ last = NoInvocation
    /\ arg = PyNone
    /\ out = NoOutcome
    /\ NoProfanityCall
    /\ NoSentimentCall

\* analyze_sentiment_basic called on its own
InitLexical ==
    /\ NoBatch
    /\ NoPipeline
    /\ NoNltk
    /\ content = EmptyPayload
    /\ stored = EmptyPayload
    /\ prev = NoInvocation
    /\ last = NoInvocation
    /\ arg \in LexicalTexts
    /\ out = NoOutcome
    /\ NoProfanityCall
    /\ TEXTBLOB_AVAILABLE = FALSE
    /\ library = NoLibrary
    /\ sinput = NoReview
    /\ rating \in LexicalRatings
    /\ scored = NoScore
    /\ ssm = Stored
    /\ config = NoConfig

\* ---------------------------------------------------------------- helpers

\* a review is finalized once a review record with its verdict exists for its key
Finalized(review) ==
    \E id \in DOMAIN reviews_table :
        /\ id[1] = reviewer_of(review)
        /\ id[2] = asin_of(review)
        /\ reviews_table[id].has_profanity = has_any_profanity(review)

CanFail == failsLeft > 0

\* `is_banned = new_count > 3` in the profanity-check handler
handler_is_banned(new_count) == new_count > 3

\* a ban decision that already bans on the third violation
orch_is_banned_from_3(new_count) == new_count >= 3

\* `is_banned = new_count > 3` in update_user_profanity_count
orch_is_banned(new_count) == new_count > 3

\* a guard that looks at the reviewer id alone
handler_updates_any(review) == reviewer_of(review) \in Authors

\* `if has_any_profanity and reviewer_id:` in the profanity-check handler
handler_updates_user(review) == has_any_profanity(review) /\ reviewer_of(review) \in Authors

\* `if result['profanity_result'].get('body', {}).get('has_profanity', False):`
orch_updates_user(result, review) == result.has_profanity /\ reviewer_of(review) \in Authors

\* the preprocessing handler's statusCode: `if not review_data: raise ValueError`
\* is answered by the `except Exception` with statusCode 500
preprocessing_statusCode(review_data) == IF DOMAIN review_data = {} THEN 500 ELSE 200

\* worker w moves on to `label` having read count c
Step(w, label, c, result) ==
    /\ pc' = [pc EXCEPT ![w] = label]
    /\ cur' = [cur EXCEPT ![w] = c]
    /\ presult' = [presult EXCEPT ![w] = result]
    /\ UNCHANGED <<kind, rev, rid, rerun, ret, profaneDone>>

Goto(w, label) == Step(w, label, cur[w], presult[w])

\* the run of worker w returns r; its locals go out of scope
Return(w, r) ==
    /\ pc' = [pc EXCEPT ![w] = "idle"]
    /\ ret' = [ret EXCEPT ![w] = r]
    /\ kind' = [kind EXCEPT ![w] = "chain"]
    /\ rev' = [rev EXCEPT ![w] = NoReview]
    /\ rid' = [rid EXCEPT ![w] = NoId]
    /\ cur' = [cur EXCEPT ![w] = 0]
    /\ rerun' = [rerun EXCEPT ![w] = FALSE]
    /\ presult' = [presult EXCEPT ![w] = NoResult]
    /\ profaneDone' =
         IF r \in {"final", "success"} /\ presult[w].has_profanity
         THEN [profaneDone EXCEPT ![kind[w]][rev[w].reviewerID] = @ + 1]
         ELSE profaneDone

\* ---------------------------------------------------------------- actions
\* process_review_through_serverless_chain / process_single_review is entered
Start(w, review, k, t) ==
    /\ w \in pool
    /\ review \in inputs
    /\ pc[w] = "idle"
    /\ runsLeft > 0
    /\ t \in {now, now + 1} /\ t <= MaxTime
    /\ k = "batch" => t = now
    /\ now' = t
    /\ kind' = [kind EXCEPT ![w] = k]
    /\ rev' = [rev EXCEPT ![w] = review]
    /\ rid' = [rid EXCEPT ![w] =
          IF k = "chain" THEN <<reviewer_of(review), asin_of(review), t>> ELSE NoId]
    /\ cur' = [cur EXCEPT ![w] = 0]
    /\ presult' = [presult EXCEPT ![w] = NoResult]
    /\ ret' = [ret EXCEPT ![w] = "none"]
    /\ ufail' = [ufail EXCEPT ![w] = FALSE]
    /\ pfail' = [pfail EXCEPT ![w] = FALSE]
    /\ rerun' = [rerun EXCEPT ![w] = Finalized(review)]
    /\ pc' = [pc EXCEPT ![w] = IF k = "chain" THEN "upload_raw" ELSE "invoke_preprocessing"]
    /\ runsLeft' = runsLeft - 1
    /\ overlap' = (overlap \/ \E v \in Workers \ {w} : pc[v] # "idle")
    /\ keys' = keys \cup {KeyOf(review)}
    /\ resub' = (resub \/ KeyOf(review) \in keys)
    /\ UNCHANGED <<store, pool, failsLeft, profaneDone, inputs, direct, nltk, batch>>

\* a store or invocation call raises
Fails == CanFail /\ failsLeft' = failsLeft - 1

\* a call that is not a put of the orchestrator raises
CallFails == Fails /\ UNCHANGED pfail

\* s3.put_object / dynamodb.put_item of the orchestrator raises
PutFails(w) == Fails /\ pfail' = [pfail EXCEPT ![w] = TRUE]

\* an upload whose failure is not looked at: the run goes on to the next step
Upload_ignoring_failure(w, at, prefix, next) ==
    /\ pc[w] = at
    /\ \/ /\ s3' = s3 \cup {<<prefix, rid[w]>>}
          /\ UNCHANGED <<failsLeft, pfail>>
       \/ /\ PutFails(w)
          /\ UNCHANGED s3
    /\ Goto(w, next)
    /\ UNCHANGED <<users, reviews_table, now, ufail, ghost>>

\* upload_to_s3 of one stage artifact, then the next step; on failure return None
Upload(w, at, prefix, next) ==
    /\ pc[w] = at
    /\ \/ /\ s3' = s3 \cup {<<prefix, rid[w]>>}
          /\ Goto(w, next)
          /\ UNCHANGED <<failsLeft, pfail>>
       \/ /\ PutFails(w)
          /\ Return(w, "None")
          /\ UNCHANGED s3
    /\ UNCHANGED <<users, reviews_table, now, ufail, ghost>>

UploadRaw(w) == Upload(w, "upload_raw", "raw", "invoke_preprocessing")
UploadProcessed(w) == Upload(w, "upload_processed", "processed", "invoke_profanity")
UploadProfanity(w) == Upload(w, "upload_profanity", "profanity", "invoke_sentiment")

\* a failed Lambda invocation is tried again
InvokeFails_retrying(w) ==
    /\ CallFails
    /\ Goto(w, pc[w])

\* a failed Lambda invocation ends the run
InvokeFails(w) ==
    /\ CallFails
    /\ Return(w, IF kind[w] = "chain" THEN "None" ELSE "failure")

\* the preprocessing handler is invoked
InvokePreprocessing(w) ==
    /\ pc[w] = "invoke_preprocessing"
    /\ \/ /\ Goto(w, IF kind[w] = "chain" THEN "upload_processed" ELSE "invoke_profanity")
          /\ UNCHANGED <<failsLeft, pfail>>
       \/ InvokeFails(w)
    /\ UNCHANGED <<store, now, ufail, ghost>>

AfterProfanity(w) == IF kind[w] = "chain" THEN "upload_profanity" ELSE "invoke_sentiment"

\* the profanity-check handler is invoked and runs up to its users-table read
InvokeProfanityCheck(w) ==
    /\ pc[w] = "invoke_profanity"
    /\ \/ InvokeFails(w)
       \/ /\ handler_updates_user(rev[w])
          /\ Goto(w, "h_get_item")
          /\ UNCHANGED <<failsLeft, pfail>>
       \/ /\ ~handler_updates_user(rev[w])
          /\ Step(w, AfterProfanity(w), cur[w],
                  [NoResult EXCEPT !.statusCode = 200,
                                   !.has_profanity = has_any_profanity(rev[w])])
          /\ UNCHANGED <<failsLeft, pfail>>
    /\ UNCHANGED <<store, now, ufail, ghost>>

\* the handler's `except Exception` around the user update: still statusCode 200
HandlerUpdateError(w) ==
    /\ CallFails
    /\ ufail' = [ufail EXCEPT ![w] = TRUE]
    /\ Step(w, AfterProfanity(w), cur[w],
            [NoResult EXCEPT !.statusCode = 200,
                             !.has_profanity = TRUE,
                             !.user_update_error = TRUE])

\* a read that never finds the item
current_count_ignoring_item(a) == 0

\* the count get_item returned: 0 when the author has no item
current_count(a) == IF users[a].present THEN users[a].profanity_count ELSE 0

\* one record shared by every author
user_key_shared(review) == "U1"

\* Key={'user_id': {'S': user_id}}: the record a run reads and writes
user_key(review) == review.reviewerID

\* dynamodb.get_item in the profanity-check handler
HandlerGetItem(w) ==
    /\ pc[w] = "h_get_item"
    /\ \/ /\ Step(w, "h_put_item", current_count(user_key(rev[w])), presult[w])
          /\ UNCHANGED <<ufail, failsLeft, pfail>>
       \/ HandlerUpdateError(w)
    /\ UNCHANGED <<store, now, ghost>>

\* dynamodb.put_item in the profanity-check handler, then its return
HandlerPutItem(w) ==
    /\ pc[w] = "h_put_item"
    /\ \/ LET new_count == cur[w] + 1
              is_banned == handler_is_banned(new_count)
          IN  /\ users' = [users EXCEPT ![user_key(rev[w])] =
                    [present |-> TRUE, profanity_count |-> new_count,
                     is_banned |-> is_banned, writer |-> "handler"]]
              /\ Step(w, AfterProfanity(w), cur[w],
                      [statusCode |-> 200, has_profanity |-> TRUE, user_update |-> TRUE,
                       new_profanity_count |-> new_count, is_banned |-> is_banned,
                       user_update_error |-> FALSE])
              /\ UNCHANGED <<ufail, failsLeft, pfail>>
       \/ /\ HandlerUpdateError(w)
          /\ UNCHANGED users
    /\ UNCHANGED <<reviews_table, s3, now, ghost>>

\* the sentiment handler is invoked; process_single_review returns after it
InvokeSentiment(w) ==
    /\ pc[w] = "invoke_sentiment"
    /\ \/ /\ IF kind[w] = "chain" THEN Goto(w, "upload_final") ELSE Return(w, "success")
          /\ UNCHANGED <<failsLeft, pfail>>
       \/ InvokeFails(w)
    /\ UNCHANGED <<store, now, ufail, ghost>>

\* upload of final/<review_id>.json: its result is not looked at
UploadFinal(w) ==
    /\ pc[w] = "upload_final"
    /\ \/ /\ s3' = s3 \cup {<<"final", rid[w]>>}
          /\ UNCHANGED <<failsLeft, pfail>>
       \/ /\ PutFails(w)
          /\ UNCHANGED s3
    /\ Goto(w, "store_review")
    /\ UNCHANGED <<users, reviews_table, now, ufail, ghost>>

\* store_result_to_dynamodb: put_item into the reviews table
StoreReview(w) ==
    /\ pc[w] = "store_review"
    /\ \/ /\ reviews_table' =
                [id \in DOMAIN reviews_table \cup {rid[w]} |->
                    IF id = rid[w]
                    THEN [has_profanity |-> presult[w].has_profanity,
                          reviewer_id |-> reviewer_of(rev[w])]
                    ELSE reviews_table[id]]
          /\ IF orch_updates_user(presult[w], rev[w])
             THEN Goto(w, "o_get_item")
             ELSE Return(w, "final")
          /\ UNCHANGED <<failsLeft, pfail>>
       \/ /\ PutFails(w)
          /\ Return(w, "final")
          /\ UNCHANGED reviews_table
    /\ UNCHANGED <<users, s3, now, ufail, ghost>>

\* update_user_profanity_count: get_item, a failure read as count 0
OrchGetItem(w) ==
    /\ pc[w] = "o_get_item"
    /\ \/ /\ Step(w, "o_put_item", current_count(user_key(rev[w])), presult[w])
          /\ UNCHANGED <<ufail, failsLeft, pfail>>
       \/ /\ CallFails
          /\ ufail' = [ufail EXCEPT ![w] = TRUE]
          /\ Step(w, "o_put_item", 0, presult[w])
    /\ UNCHANGED <<store, now, ghost>>

\* update_user_profanity_count: put_item, then the chain returns final_result
OrchPutItem(w) ==
    /\ pc[w] = "o_put_item"
    /\ \/ LET new_count == cur[w] + 1
          IN  /\ users' = [users EXCEPT ![user_key(rev[w])] =
                    [present |-> TRUE, profanity_count |-> new_count,
                     is_banned |-> orch_is_banned(new_count), writer |-> "orchestrator"]]
              /\ UNCHANGED <<ufail, failsLeft, pfail>>
       \/ /\ PutFails(w)
          /\ ufail' = [ufail EXCEPT ![w] = TRUE]
          /\ UNCHANGED users
    /\ Return(w, "final")
    /\ UNCHANGED <<reviews_table, s3, now, ghost>>

Next ==
    \E w \in Workers :
        \/ \E review \in Reviews \cup Payloads, k \in Kinds, t \in 0..MaxTime : Start(w, review, k, t)
        \/ UploadRaw(w)
        \/ InvokePreprocessing(w)
        \/ UploadProcessed(w)
        \/ InvokeProfanityCheck(w)
        \/ HandlerGetItem(w)
        \/ HandlerPutItem(w)
        \/ UploadProfanity(w)
        \/ InvokeSentiment(w)
        \/ UploadFinal(w)
        \/ StoreReview(w)
        \/ OrchGetItem(w)
        \/ OrchPutItem(w)

Spec == Init /\ [][Next]_vars

SpecConc == InitConc /\ [][Next]_vars

SpecMalformed == InitMalformed /\ [][Next]_vars

\* one caller thread making calls one after the other
InitChain ==
    /\ NoBatch
    /\ InitStores
    /\ pool = {"w1"}
    /\ runsLeft = MaxChainRuns
    /\ failsLeft = MaxFailures
    /\ inputs = Reviews
    /\ NoDirectInvocation
    /\ NoNltk

\* the calling thread keeps running: every boto3 call it makes returns or raises
\* a step of a call that is under way
Proceed ==
    \E w \in pool :
        \/ UploadRaw(w)
        \/ InvokePreprocessing(w)
        \/ UploadProcessed(w)
        \/ InvokeProfanityCheck(w)
        \/ HandlerGetItem(w)
        \/ HandlerPutItem(w)
        \/ UploadProfanity(w)
        \/ InvokeSentiment(w)
        \/ UploadFinal(w)
        \/ StoreReview(w)
        \/ OrchGetItem(w)
        \/ OrchPutItem(w)

SpecChain == InitChain /\ [][Next]_vars /\ WF_vars(Proceed)

\* ------------------------------------------------- process_dataset_batch
\* the reviews of one batch: every submitted call runs in its own pool thread
Indices == 1..MaxBatch
BatchReviews == {r \in Reviews : r.asin = "P1"}

\* an author with three recorded violations from earlier batches
Warned == [present |-> TRUE, profanity_count |-> 3, is_banned |-> FALSE, writer |-> "handler"]

\* executor.submit(self.process_single_review, review, batch_start + i) for each review
InitBatch ==
    /\ users \in [Authors -> {NoItem, Warned}]
    /\ users["U2"] = NoItem
    /\ reviews_table = <<>>
    /\ s3 = {}
    /\ now = 0
    /\ pc = [w \in Workers |-> "idle"]
    /\ kind = [w \in Workers |-> "chain"]
    /\ rev = [w \in Workers |-> NoReview]
    /\ rid = [w \in Workers |-> NoId]
    /\ cur = [w \in Workers |-> 0]
    /\ presult = [w \in Workers |-> NoResult]
    /\ ret = [w \in Workers |-> "none"]
    /\ ufail = [w \in Workers |-> FALSE]
    /\ pfail = [w \in Workers |-> FALSE]
    /\ rerun = [w \in Workers |-> FALSE]
    /\ overlap = FALSE
    /\ keys = {}
    /\ resub = FALSE
    /\ profaneDone = [k \in Kinds |-> [a \in Authors |-> 0]]
    /\ pool = {}
    /\ runsLeft = 0
    /\ failsLeft = MaxFailures
    /\ inputs = {}
    /\ NoDirectInvocation
    /\ NoNltk
    /\ stats = NoStats
    /\ futures \in [Indices -> [review : BatchReviews, at : {"invoke_preprocessing"},
                                read : {0}, profanity_result : {NoResult}]]
    /\ results = <<>>
    /\ returned = FALSE

NotBatch ==
    <<reviews_table, s3, now, pc, kind, rev, rid, cur, presult, ret, ufail, rerun,
      pool, runsLeft, overlap, keys, resub, profaneDone, inputs, pfail, direct, nltk>>

\* thread i moves on to the next statement
At(i, label) == futures' = [futures EXCEPT ![i].at = label]

\* `return {'review_index': ..., 'success': ...}`; as_completed hands it to batch_results
Completes(i, success) ==
    /\ At(i, "done")
    /\ results' = Append(results, [review_index |-> i, success |-> success])

\* lambda_client.invoke raises, or answers with a StatusCode other than 200
Raises_in(i) ==
    /\ Fails
    /\ At(i, "read_failed")
    /\ UNCHANGED <<users, stats, results, returned>>

\* Step 1: the preprocessing function is invoked
BatchInvokePreprocessing(i) ==
    /\ i \in DOMAIN futures
    /\ futures[i].at = "invoke_preprocessing"
    /\ \/ /\ At(i, "invoke_profanity")
          /\ UNCHANGED <<users, stats, results, returned, failsLeft>>
       \/ Raises_in(i)
    /\ UNCHANGED NotBatch

\* Step 2: the profanity function is invoked; it updates the author's record
BatchInvokeProfanityCheck(i) ==
    /\ i \in DOMAIN futures
    /\ futures[i].at = "invoke_profanity"
    /\ \/ Raises_in(i)
       \/ LET review == futures[i].review
              new_count == current_count(user_key(review)) + 1
              is_banned == handler_is_banned(new_count)
          IN  /\ IF handler_updates_user(review)
                 THEN /\ users' = [users EXCEPT ![user_key(review)] =
                            [present |-> TRUE, profanity_count |-> new_count,
                             is_banned |-> is_banned, writer |-> "handler"]]
                      /\ futures' = [futures EXCEPT
                            ![i].at = "invoke_sentiment",
                            ![i].profanity_result =
                                [statusCode |-> 200, has_profanity |-> TRUE,
                                 user_update |-> TRUE, new_profanity_count |-> new_count,
                                 is_banned |-> is_banned, user_update_error |-> FALSE]]
                 ELSE /\ UNCHANGED users
                      /\ futures' = [futures EXCEPT
                            ![i].at = "invoke_sentiment",
                            ![i].profanity_result =
                                [NoResult EXCEPT !.statusCode = 200,
                                                 !.has_profanity = has_any_profanity(review)]]
              /\ UNCHANGED <<stats, results, returned, failsLeft>>
    /\ UNCHANGED NotBatch

\* Step 3: the sentiment function is invoked
BatchInvokeSentiment(i) ==
    /\ i \in DOMAIN futures
    /\ futures[i].at = "invoke_sentiment"
    /\ \/ /\ At(i, "read_processed")
          /\ UNCHANGED <<users, stats, results, returned, failsLeft>>
       \/ Raises_in(i)
    /\ UNCHANGED NotBatch

\* thread i loads self.stats[key]
Load(i, at, key, next) ==
    /\ i \in DOMAIN futures
    /\ futures[i].at = at
    /\ futures' = [futures EXCEPT ![i].at = next, ![i].read = stats[key]]
    /\ UNCHANGED <<users, stats, results, returned, failsLeft, NotBatch>>

\* update_statistics: self.stats['processed_reviews'] += 1, the load ...
LoadProcessed(i) == Load(i, "read_processed", "processed_reviews", "write_processed")

\* ... and the store of the value loaded plus one
StoreProcessed(i) ==
    /\ i \in DOMAIN futures
    /\ futures[i].at = "write_processed"
    /\ stats' = [stats EXCEPT !.processed_reviews = futures[i].read + 1]
    /\ At(i, "track_user")
    /\ UNCHANGED <<users, results, returned, failsLeft, NotBatch>>

\* update_statistics: the user_update of the profanity result is recorded
TrackUser(i) ==
    /\ i \in DOMAIN futures
    /\ futures[i].at = "track_user"
    /\ LET r == futures[i].profanity_result
           reviewer_id == user_key(futures[i].review)
       IN  IF r.user_update
           THEN /\ stats' = [stats EXCEPT !.user_profanity_counts =
                                (reviewer_id :> r.new_profanity_count) @@ @]
                /\ IF r.is_banned
                   THEN At(i, "read_banned") /\ UNCHANGED results
                   ELSE Completes(i, TRUE)
           ELSE /\ Completes(i, TRUE)
                /\ UNCHANGED stats
    /\ UNCHANGED <<users, returned, failsLeft, NotBatch>>

\* update_statistics: self.stats['banned_users'] += 1, the load ...
LoadBanned(i) == Load(i, "read_banned", "banned_users", "write_banned")

\* ... and the store; update_statistics and process_single_review return
StoreBanned(i) ==
    /\ i \in DOMAIN futures
    /\ futures[i].at = "write_banned"
    /\ stats' = [stats EXCEPT !.banned_users = futures[i].read + 1]
    /\ Completes(i, TRUE)
    /\ UNCHANGED <<users, returned, failsLeft, NotBatch>>

\* except Exception: self.stats['failed_reviews'] += 1, the load ...
LoadFailed(i) == Load(i, "read_failed", "failed_reviews", "write_failed")

\* ... and the store; process_single_review returns success False
StoreFailed(i) ==
    /\ i \in DOMAIN futures
    /\ futures[i].at = "write_failed"
    /\ stats' = [stats EXCEPT !.failed_reviews = futures[i].read + 1]
    /\ Completes(i, FALSE)
    /\ UNCHANGED <<users, returned, failsLeft, NotBatch>>

\* every future has completed: the executor is left and `results` is returned
ReturnResults ==
    /\ futures # <<>>
    /\ ~returned
    /\ \A i \in DOMAIN futures : futures[i].at = "done"
    /\ returned' = TRUE
    /\ UNCHANGED <<users, stats, futures, results, failsLeft, NotBatch>>

NextBatch ==
    \/ \E i \in Indices :
        \/ BatchInvokePreprocessing(i)
        \/ BatchInvokeProfanityCheck(i)
        \/ BatchInvokeSentiment(i)
        \/ LoadProcessed(i)
        \/ StoreProcessed(i)
        \/ TrackUser(i)
        \/ LoadBanned(i)
        \/ StoreBanned(i)
        \/ LoadFailed(i)
        \/ StoreFailed(i)
    \/ ReturnResults

SpecBatch == InitBatch /\ [][NextBatch]_vars

\* lambda_handler of a stage is invoked with an event in one of the forms
InvokeHandler(stage, form) ==
    /\ last' = [stage |-> stage, form |-> form,
                response |-> lambda_handler(stage, event_of(stage, form, content),
                                            stage_content(stage, stored))]
    /\ prev' = last
    /\ UNCHANGED <<store, now, pc, kind, rev, rid, cur, presult, ret, ufail, rerun,
                   pool, runsLeft, failsLeft, overlap, keys, resub, profaneDone,
                   inputs, pfail, content, stored, arg, out, found, prevfound, hashseed,
                   sentiment, ssm, config, nltk, batch>>

NextEvents == \E stage \in Stages, form \in Forms : InvokeHandler(stage, form)

SpecEvents == InitEvents /\ [][NextEvents]_vars

\* preprocess_text(arg) is called
CallPreprocessText ==
    /\ out' = preprocess_text_call(arg)
    /\ UNCHANGED <<store, now, pc, kind, rev, rid, cur, presult, ret, ufail, rerun,
                   pool, runsLeft, failsLeft, overlap, keys, resub, profaneDone,
                   inputs, pfail, content, stored, prev, last, arg, found, prevfound,
                   hashseed, sentiment, ssm, config, nltk, batch>>

NextText == CallPreprocessText

SpecText == InitText /\ [][NextText]_vars

\* everything but the record of the direct profanity calls
NotProfanity ==
    <<store, now, pc, kind, rev, rid, cur, presult, ret, ufail, rerun,
      pool, runsLeft, failsLeft, overlap, keys, resub, profaneDone,
      inputs, pfail, content, stored, prev, last, arg, out, sentiment, ssm, config, nltk, batch>>

\* a profanity function returned `result`
Found(fn, result) ==
    /\ found' = [fn |-> fn, result |-> result]
    /\ prevfound' = found
    /\ UNCHANGED <<hashseed, NotProfanity>>

\* check_profanity(arg) is called
CallCheckProfanity == Found("check_profanity", check_profanity_result(arg))

\* check_profanity_in_tokens is called on the tokens of arg
CallCheckProfanityInTokens ==
    Found("check_profanity_in_tokens",
          check_profanity_in_tokens_result(preprocess_text_call(arg).tokens))

\* the handler's `list(set(...))` over the matches of arg and of its tokens
CallAllProfanityWords ==
    Found("all_profanity_words",
          all_profanity_words_result(arg, preprocess_text_call(arg).tokens))

\* a new process (a cold start of the Lambda, a new run of the program)
ColdStart ==
    /\ hashseed' \in Seeds
    /\ UNCHANGED <<found, prevfound, NotProfanity>>

NextProfanity ==
    \/ CallCheckProfanity
    \/ CallCheckProfanityInTokens
    \/ CallAllProfanityWords
    \/ ColdStart

SpecProfanity == InitProfanity /\ [][NextProfanity]_vars

\* everything but the result of the sentiment calls
NotScored ==
    <<store, now, pc, kind, rev, rid, cur, presult, ret, ufail, rerun,
      pool, runsLeft, failsLeft, overlap, keys, resub, profaneDone,
      inputs, pfail, content, stored, prev, last, arg, out, found, prevfound, hashseed,
      TEXTBLOB_AVAILABLE, library, sinput, rating, ssm, config, nltk, batch>>

\* the sentiment handler is called on the profanity artifact of the review
ScoreReview ==
    /\ scored' = [fn |-> "lambda_handler",
                  response |-> sentiment_handler(profanity_data_of(sinput), library)]
    /\ UNCHANGED NotScored

NextSentiment == ScoreReview

SpecSentiment == InitSentiment /\ [][NextSentiment]_vars

\* everything but the result of the configuration lookups
NotConfig ==
    <<store, now, pc, kind, rev, rid, cur, presult, ret, ufail, rerun,
      pool, runsLeft, failsLeft, overlap, keys, resub, profaneDone,
      inputs, pfail, content, stored, prev, last, arg, out, found, prevfound, hashseed,
      sentiment, ssm, nltk, batch>>

\* the pipeline object loads its configuration
LoadConfigFromSsm ==
    /\ config' = [fn |-> "load_config_from_ssm", values |-> load_config_from_ssm(ssm)]
    /\ UNCHANGED NotConfig

\* a Lambda resolves one name
GetParameter(parameter_name) ==
    /\ config' = [fn |-> "get_parameter", name |-> parameter_name,
                  value |-> get_parameter(ssm, parameter_name)]
    /\ UNCHANGED NotConfig

NextConfig ==
    \/ LoadConfigFromSsm
    \/ \E parameter_name \in parameter_names : GetParameter(parameter_name)

SpecConfig == InitConfig /\ [][NextConfig]_vars

\* the users table after the handler answered `response` on `data`: the
\* profanity-check handler reads and writes the author's item when it found
\* profanity and the review names its author
after_user_update(stage, response, data, table) ==
    LET reviewer_id == get(get(data, "original_review", <<>>), "reviewerID", "")
    IN  IF /\ stage = "profanity"
           /\ response.statusCode = 200
           /\ response.body.has_profanity
           /\ reviewer_id \in Authors
        THEN LET new_count ==
                     (IF table[reviewer_id].present
                      THEN table[reviewer_id].profanity_count ELSE 0) + 1
             IN  [table EXCEPT ![reviewer_id] =
                     [present |-> TRUE, profanity_count |-> new_count,
                      is_banned |-> handler_is_banned(new_count), writer |-> "handler"]]
        ELSE table

\* one invocation of a stage handler, alone, with an event of the given shape
Invoke(stage, form) ==
    /\ runsLeft > 0
    /\ runsLeft' = runsLeft - 1
    /\ LET event == event_of(stage, form, content)
           object == stage_content(stage, stored)
           response == lambda_handler(stage, event, object)
           x == extract(event, InlineKey[stage], object)
       IN  /\ last' = [stage |-> stage, form |-> form, response |-> response]
           /\ users' = after_user_update(stage, response, x.data, users)
    /\ prev' = last
    /\ UNCHANGED <<reviews_table, s3, now, pc, kind, rev, rid, cur, presult, ret, ufail, rerun,
                   pool, failsLeft, overlap, keys, resub, profaneDone,
                   inputs, pfail, content, stored, arg, out, found, prevfound, hashseed,
                   sentiment, ssm, config, nltk, batch>>

NextInvocations == \E stage \in Stages, form \in Forms \cup EmptyForms : Invoke(stage, form)

SpecInvocations == InitInvocations /\ [][NextInvocations]_vars

\* analyze_sentiment_basic(arg, rating) is called
CallAnalyzeSentimentBasic ==
    /\ scored' = [fn |-> "analyze_sentiment_basic",
                  result |-> analyze_sentiment_basic(arg, rating)]
    /\ UNCHANGED NotScored

NextLexical == CallAnalyzeSentimentBasic

SpecLexical == InitLexical /\ [][NextLexical]_vars

\* ----------------------------------------------------------- properties
Quiescent == \A w \in Workers : pc[w] = "idle"

NoFailureYet == failsLeft = MaxFailures

\* chain runs only, one after another, distinct review keys, no failure
SequentialChainRuns ==
    /\ Quiescent
    /\ ~overlap
    /\ ~resub
    /\ NoFailureYet
    /\ \A a \in Authors : profaneDone["batch"][a] = 0

\* C1: after complete, non-overlapping chain runs over distinct review keys
\* with no store failure, each author's stored profanity_count equals the
\* number of that author's processed profane reviews.
C1_CountEqualsProfaneReviews ==
    SequentialChainRuns =>
        \A a \in Authors : current_count(a) = profaneDone["chain"][a]

\* C2: after N profane reviews of an author processed one after another by the
\* chain, the stored is_banned flag equals (N > 3).
C2_BannedIffMoreThanThree ==
    SequentialChainRuns =>
        \A a \in Authors : users[a].is_banned = (profaneDone["chain"][a] > 3)

\* C3: two profane reviews of one unseen author processed concurrently by two
\* workers leave the author's count at exactly 2 under every interleaving.
C3_NoLostUpdate ==
    \A a \in Authors :
        ( /\ Quiescent
          /\ NoFailureYet
          /\ profaneDone["batch"][a] = 2
          /\ profaneDone["chain"][a] = 0 ) => current_count(a) = 2

\* C4: a run on a review key that is already finalized does not change the
\* author's violation count.
C4_RerunDoesNotCount ==
    [][\A w \in Workers, a \in Authors :
          (rerun[w] /\ rev[w].reviewerID = a)
              => users'[a].profanity_count = users[a].profanity_count]_vars

\* C5: the reviews table holds at most one record per (author, product) key.
C5_OneRecordPerKey ==
    \A id1, id2 \in DOMAIN reviews_table :
        (id1[1] = id2[1] /\ id1[2] = id2[2]) => id1 = id2

\* C6: an author's stored violation count never decreases.
C6_CountMonotonic ==
    [][\A a \in Authors : users'[a].profanity_count >= users[a].profanity_count]_vars

\* C7: once an author's is_banned flag is true it stays true.
C7_BanSticky ==
    [][\A a \in Authors : users[a].is_banned => users'[a].is_banned]_vars

\* C8: every author record satisfies is_banned = (profanity_count > 3),
\* whichever writer wrote it and under any interleaving of writers.
C8_BannedMatchesCount ==
    \A a \in Authors :
        users[a].present => (users[a].is_banned = (users[a].profanity_count > 3))

\* a banned author whose record the orchestrator wrote
C8_Witness ==
    \E a \in Authors : users[a].is_banned /\ users[a].writer = "orchestrator"

\* C9: no step of a run whose review has a false combined verdict changes the
\* users table: a step of a run that changes it belongs to a profane review.
C9_CleanReviewLeavesUsers ==
    [][\A w \in Workers :
          (pc[w] # "idle" /\ pc'[w] # pc[w] /\ users' # users)
              => has_any_profanity(rev[w])]_vars

\* a clean review went through the whole chain and was recorded
C9_Witness ==
    /\ \E w \in Workers : ret[w] = "final"
    /\ \E id \in DOMAIN reviews_table : ~reviews_table[id].has_profanity
    /\ \A a \in Authors : ~users[a].present

\* C10: when a users-table call fails while a violation is recorded, the
\* handler does not return statusCode 200 and the chain does not return a
\* completed result.
C10_StoreFailureIsVisible ==
    \A w \in Workers :
        /\ (ufail[w] /\ presult[w].user_update_error) => presult[w].statusCode # 200
        /\ ufail[w] => ret[w] # "final"

\* the steps of a chain run that follow the upload of processed/<review_id>
\* up to the return of the profanity-check handler
ProfanityStage == {"invoke_profanity", "h_get_item", "h_put_item"}

\* C11: within one chain run the profanity-check stage runs only once the
\* preprocessing result is stored under processed/, the sentiment stage only
\* once the profanity-check result is stored under profanity/, and a failed
\* upload of either artifact ends the run.
C11_StageAfterArtifact ==
    \A w \in Workers :
        kind[w] = "chain" =>
            /\ pc[w] \in ProfanityStage => <<"processed", rid[w]>> \in s3
            /\ pc[w] = "invoke_sentiment" =>
                  (<<"processed", rid[w]>> \in s3 /\ <<"profanity", rid[w]>> \in s3)

\* a chain run about to invoke the sentiment stage, after one failed call
C11_Witness ==
    \E w \in Workers :
        /\ kind[w] = "chain"
        /\ pc[w] = "invoke_sentiment"
        /\ <<"profanity", rid[w]>> \in s3
        /\ failsLeft < MaxFailures

\* an earlier run for the review's key stored its profanity-check result and
\* no run for that key has written the review record
StoppedAfterProfanity(review) ==
    /\ \E x \in s3 :
          x[1] = "profanity" /\ x[2][1] = review.reviewerID /\ x[2][2] = review.asin
    /\ ~\E id \in DOMAIN reviews_table :
          id[1] = review.reviewerID /\ id[2] = review.asin

\* the steps of a chain run at which the preprocessing handler or the
\* profanity-check handler of this run has been invoked and the run has not
\* yet stored its own profanity-check result
RanEarlyStage == {"upload_processed", "h_get_item", "h_put_item", "upload_profanity"}

\* C12: a chain run for a review key whose earlier run stopped after its
\* profanity-check result was stored goes on with sentiment scoring: it does
\* not run the preprocessing or the profanity-check stage again.
C12_ResumesAfterProfanity ==
    \A w \in Workers :
        (kind[w] = "chain" /\ pc[w] \in RanEarlyStage) => ~StoppedAfterProfanity(rev[w])

\* the steps of a chain run at which a stage has run on the preprocessing
\* handler's response
AfterPreprocessingOutput ==
    {"h_get_item", "h_put_item", "upload_profanity", "invoke_sentiment",
     "upload_final", "store_review", "o_get_item", "o_put_item"}

\* the steps of a chain run at which final_result, marked
\* lambda_chain_completed, has been built
Completed == {"upload_final", "store_review", "o_get_item", "o_put_item"}

\* C13: a chain run is marked complete only if the stage handlers reported
\* success: after the preprocessing handler answered statusCode 500 no later
\* stage runs on that answer and the run is not completed.
C13_CompleteOnlyIfStagesSucceeded ==
    \A w \in Workers :
        kind[w] = "chain" =>
            /\ pc[w] \in AfterPreprocessingOutput => preprocessing_statusCode(rev[w]) = 200
            /\ pc[w] \in Completed => presult[w].statusCode = 200

\* C14: when a put into the blob store or into a table fails during a chain
\* run, the upload of the final result and the write of the review record
\* included, the run does not return a completed result.
C14_PutFailureReturnsNone ==
    \A w \in Workers : pfail[w] => ret[w] # "final"

\* the review whose content an invocation was given
content_of(invocation) == IF invocation.form = "records" THEN stored ELSE content

C16_MissingFieldsNeverFatal ==
    last.stage \in Stages =>
        /\ last.response.statusCode = 200
        /\ last.stage = "preprocessing" =>
              /\ "reviewText" \notin DOMAIN content_of(last)
                    => last.response.body.reviewText.original = <<>>
              /\ "summary" \notin DOMAIN content_of(last)
                    => last.response.body.summary.original = <<>>

\* C17: for a review without an overall rating every stage that uses the
\* rating takes it as 3, neither high (>= 4) nor low (<= 2): the
\* profanity-check result has low_rating_negative false and the sentiment
\* result has the neutral rating label.
C17_MissingRatingIsNeutral ==
    ( /\ last.stage \in {"profanity", "sentiment"}
      /\ last.response.statusCode = 200
      /\ "reviewerID" \in DOMAIN content_of(last)
      /\ "overall" \notin DOMAIN content_of(last) )
        => /\ last.response.body.overall_rating = 3
           /\ last.stage = "profanity" => ~last.response.body.low_rating_negative
           /\ last.stage = "sentiment" =>
                 last.response.body.rating_based_sentiment = "neutral"

\* C20: whenever the tokens of a review's body were not lemmatized (the
\* lemmatizer was not imported, or it failed when called and the raw tokens
\* were kept), the preprocessing output has processing_metadata.nltk_available
\* false.
C20_DegradedModeRecorded ==
    LET call == preprocess_text_call(PyStr(review_text(content_of(last))))
    IN  ( /\ last.stage = "preprocessing"
          /\ last.response.statusCode = 200
          /\ call.tokens # <<>>
          /\ ~call.lemmatized )
            => ~last.response.body.processing_metadata.nltk_available

\* no character of the text is a letter
NoLetters(text) == \A i \in 1..Len(text) : text[i] \notin Letters \cup DOMAIN LowerOf

\* C18: preprocess_text never raises, and returns the empty list for the
\* empty string, for a value that is not a string, and for a text without
\* letters.
C18_PreprocessTextTotal ==
    (out.returned \/ out.raised) =>
        /\ ~out.raised
        /\ (arg.type # "str" \/ arg.value = <<>> \/ NoLetters(arg.value))
              => out.tokens = <<>>

\* preprocess_text was called with the number 7 while the NLTK data is missing
C18_Witness ==
    /\ out.returned
    /\ arg = PyInt(7)
    /\ NLTK_AVAILABLE /\ ~wordnet_ok /\ ~punkt_ok

\* a word of the text, lowercased, with everything but a-z removed
CleanWord(word) == SelectSeq(lower(word), LAMBDA c : c \in Letters)

\* the words of the text cleaned one by one, those longer than two characters
\* that are not stop-words kept in order
RefTokens(text) ==
    LET words == split(text)
        cleaned == [i \in 1..Len(words) |-> CleanWord(words[i])]
    IN  SelectSeq(cleaned, LAMBDA t : Len(t) > 2 /\ t \notin stop_words)

\* C19: without the lemmatizer, preprocess_text(text) is the list of the
\* whitespace-separated tokens of the lowercased, letters-only text that are
\* longer than two characters and not stop-words, in order; it has at most as
\* many tokens as the text has whitespace-separated words.
C19_FallbackTokens ==
    (out.returned /\ ~NLTK_AVAILABLE /\ arg.type = "str") =>
        /\ out.tokens = RefTokens(arg.value)
        /\ Len(out.tokens) <= Len(split(arg.value))

\* a text of three words of which the fallback keeps two, in order
C19_Witness ==
    /\ out.returned /\ ~NLTK_AVAILABLE /\ arg.type = "str"
    /\ Len(split(arg.value)) = 3
    /\ out.tokens = << <<"c", "a", "t", "s">>, <<"r", "e", "u", "s", "e">> >>

\* the review with its rating set to r
Rated(review, r) == ("overall" :> r) @@ review

\* C21: the has_profanity of a profanity-check result is true exactly when
\* the raw body, the body tokens, the raw summary or the summary tokens
\* match, and it is the same for every rating of the review.
C21_VerdictIsFourChecks ==
    (last.stage = "profanity" /\ last.response.statusCode = 200) =>
        LET review == content_of(last)
            body == review_text(review)
            summary == summary_text(review)
        IN  /\ last.response.body.has_profanity =
                  ( \/ check_profanity(body) # {}
                    \/ check_profanity_in_tokens(preprocess_text_call(PyStr(body)).tokens) # {}
                    \/ check_profanity(summary) # {}
                    \/ check_profanity_in_tokens(preprocess_text_call(PyStr(summary)).tokens) # {} )
            /\ \A r \in 1..5 :
                  profanity_response(processed_data_of(Rated(review, r))).body.has_profanity
                      = last.response.body.has_profanity

\* the profanity-check result of a clean review with a low rating
C21_Witness ==
    /\ last.stage = "profanity"
    /\ last.response.statusCode = 200
    /\ ~last.response.body.has_profanity
    /\ last.response.body.low_rating_negative
    /\ "overall" \in DOMAIN content_of(last)

\* the entry occurs in the text: the text is some prefix, the entry, some suffix
OccursIn(word, text) ==
    \E i \in 0..Len(text) :
        /\ i + Len(word) <= Len(text)
        /\ \A k \in 1..Len(word) : text[i + k] = word[k]

\* C22: check_profanity reports a vocabulary entry exactly when it occurs in
\* the lowercased text, inside a larger word too; check_profanity_in_tokens
\* reports an entry exactly when some token, lowercased, equals it.
C22_SubstringAndTokenMatch ==
    /\ (found.fn = "check_profanity" /\ arg.type = "str") =>
          \A word \in PROFANITY_WORDS :
              word \in Range(found.result.words) <=> OccursIn(word, lower(arg.value))
    /\ found.fn = "check_profanity_in_tokens" =>
          LET tokens == preprocess_text_call(arg).tokens
          IN  \A word \in PROFANITY_WORDS :
                  word \in Range(found.result.words)
                      <=> \E i \in 1..Len(tokens) : lower(tokens[i]) = word

\* "glass": the raw check reports "ass", the token check reports nothing
C22_Witness ==
    /\ arg = PyStr(<<"g", "l", "a", "s", "s">>)
    /\ prevfound.fn = "check_profanity"
    /\ prevfound.result.words = << <<"a", "s", "s">> >>
    /\ found.fn = "check_profanity_in_tokens"
    /\ ~found.result.has

\* C23: two evaluations of a profanity function on the same input give equal
\* results, the matched terms in the same sequence, in every run of the
\* program; the empty text gives (false, no terms).
C23_DetectionDeterministic ==
    /\ (prevfound.fn = found.fn /\ found.fn # "none") => prevfound.result = found.result
    /\ (found.fn # "none" /\ arg = PyStr(<<>>)) =>
          found.result = [has |-> FALSE, words |-> <<>>]

\* a label and a confidence in [0, 1]
WellFormed(scoring) ==
    /\ scoring.sentiment \in {"positive", "negative", "neutral"}
    /\ leq(Zero, scoring.confidence)
    /\ leq(scoring.confidence, One)

\* C24: for every body, summary and rating in 1..5, every sentiment label the
\* handler produces (per field and combined) is positive, negative or
\* neutral, and every confidence it produces lies in [0, 1].
C24_LabelsAndConfidences ==
    scored.fn = "lambda_handler" =>
        LET body == scored.response.body
        IN  /\ WellFormed(body)
            /\ \A field \in DOMAIN body.detailed_analysis :
                   WellFormed(body.detailed_analysis[field])

\* the library gives the body polarity -1: the body's confidence is 1, the
\* combined confidence is below 1 because the summary votes otherwise
C24_Witness ==
    /\ scored.fn = "lambda_handler"
    /\ TEXTBLOB_AVAILABLE
    /\ library.review_text = Polarity(-1, 1)
    /\ scored.response.body.detailed_analysis.review_text.confidence = One
    /\ less(scored.response.body.confidence, One)

WeightOf(label) ==
    LET body == scored.response.body
        detail == body.detailed_analysis
        review_weight ==
            IF detail.review_text.sentiment = label
            THEN times(Frac(Len(sinput.reviewText), 1), detail.review_text.confidence)
            ELSE Zero
        summary_weight ==
            IF detail.summary.sentiment = label
            THEN times(Frac(Len(sinput.summary), 1), detail.summary.confidence)
            ELSE Zero
        rating_weight ==
            IF label = (IF sinput.overall >= 4 THEN "positive"
                        ELSE IF sinput.overall <= 2 THEN "negative" ELSE "neutral")
            THEN Frac(3, 10)
            ELSE Zero
    IN  plus(plus(review_weight, summary_weight), rating_weight)

\* C26: the combined label is the label with the largest accumulated weight
\* (body length x confidence, summary length x confidence, 0.3 for the
\* rating's label), the first of positive, negative, neutral among equals;
\* the combined confidence is that weight over the total weight.
C26_LargestWeightWins ==
    scored.fn = "lambda_handler" =>
        LET body == scored.response.body
            rank == ("positive" :> 1) @@ ("negative" :> 2) @@ ("neutral" :> 3)
            total == plus(plus(WeightOf("positive"), WeightOf("negative")), WeightOf("neutral"))
        IN  /\ \A label \in DOMAIN rank :
                   /\ leq(WeightOf(label), WeightOf(body.sentiment))
                   /\ rank[label] < rank[body.sentiment] =>
                          less(WeightOf(label), WeightOf(body.sentiment))
            /\ times(body.confidence, total) = WeightOf(body.sentiment)

\* body and summary weigh the same for different labels
C26_Witness ==
    /\ scored.fn = "lambda_handler"
    /\ WeightOf("positive") = WeightOf("negative")
    /\ less(WeightOf("neutral"), WeightOf("positive"))
    /\ scored.response.body.sentiment = "positive"

\* the scenario review: its body, an empty summary, rating 1
ScenarioScored ==
    /\ scored.fn = "lambda_handler"
    /\ ~TEXTBLOB_AVAILABLE
    /\ sinput.reviewText = ScenarioBody
    /\ sinput.summary = <<>>
    /\ sinput.overall = 1

\* C27: for the body "This shit is garbage and I hate it", an empty summary
\* and rating 1, the profanity verdict is true, its terms include "shit" and
\* "garbage", and the combined sentiment of the lexical strategy is negative.
C27_ProfaneNegativeScenario ==
    ScenarioScored =>
        /\ scored.response.body.has_profanity
        /\ {<<"s", "h", "i", "t">>, <<"g", "a", "r", "b", "a", "g", "e">>} \subseteq scored.response.body.profanity_words
        /\ scored.response.body.sentiment = "negative"

C27_Witness ==
    /\ ScenarioScored
    /\ scored.response.body.detailed_analysis.review_text.sentiment = "negative"
    /\ scored.response.body.detailed_analysis.review_text.confidence = Frac(1, 2)

\* the value the claim gives a name: the stored one when it can be read, the
\* name's default otherwise
Resolved(name) ==
    IF ssm[name] = "stored" THEN parameter_value[name] ELSE defaults[name]

\* C28: configuration resolution is total and per name: each of the six
\* names resolves to the stored value when that name can be read and to its
\* own default otherwise, whatever happens to the other names.
C28_ConfigPerName ==
    /\ config.fn = "get_parameter" => config.value = Resolved(config.name)
    /\ config.fn = "load_config_from_ssm" =>
          /\ DOMAIN config.values = parameter_names
          /\ \A name \in parameter_names : config.values[name] = Resolved(name)

\* C29: a run for a review of author A, alone or beside runs for other
\* authors, reads and changes the record of A only: a step that changes the
\* record of an author is the write of a run for that author, and the count
\* a run reads is the count of its own author.
C29_OtherAuthorsUntouched ==
    [][ /\ \A a \in Authors :
              users'[a] # users[a] =>
                  \E w \in Workers :
                      /\ pc[w] \in {"h_put_item", "o_put_item"}
                      /\ pc'[w] # pc[w]
                      /\ rev[w].reviewerID = a
        /\ \A w \in Workers :
              /\ (pc[w] = "h_get_item" /\ pc'[w] = "h_put_item") =>
                    cur'[w] = current_count(rev[w].reviewerID)
              /\ (pc[w] = "o_get_item" /\ pc'[w] = "o_put_item" /\ ~ufail'[w]) =>
                    cur'[w] = current_count(rev[w].reviewerID) ]_vars

\* runs for two authors overlapped and left different counts
C29_Witness ==
    /\ overlap
    /\ users["U1"].present
    /\ users["U2"].present
    /\ users["U1"].profanity_count # users["U2"].profanity_count

\* C30: the violation is recorded only at finalization: when the first run
\* has stopped before the final stage (it returned None), no author's count
\* or ban flag has changed, whether its review was profane or not.
C30_NoViolationBeforeFinalized ==
    ( /\ runsLeft = MaxRuns - 1
      /\ pc["w1"] = "idle"
      /\ ret["w1"] = "None" ) =>
        \A a \in Authors : users[a] = NoItem

\* C31: a successful profanity-check handler invocation for a profane review
\* with a reviewer id, with no other invocation for the same author under
\* way, stores the previous count plus one (one when the author has no
\* record) and returns in user_update the count and ban flag now stored.
C31_ReturnsPostUpdateValues ==
    [][ \A w \in Workers :
          ( /\ pc[w] = "h_put_item"
            /\ pc'[w] # "h_put_item"
            /\ presult'[w].user_update ) =>
              LET a == rev[w].reviewerID
              IN  /\ users'[a].present
                  /\ users'[a].profanity_count =
                        (IF users[a].present THEN users[a].profanity_count ELSE 0) + 1
                  /\ presult'[w].new_profanity_count = users'[a].profanity_count
                  /\ presult'[w].is_banned = users'[a].is_banned ]_vars

\* the handler has just stored and returned a count above one
C31_Witness ==
    /\ presult["w1"].user_update
    /\ presult["w1"].new_profanity_count = 3
    /\ users["U1"].profanity_count = 3
    /\ users["U1"].writer = "handler"

\* the review ids that have an artifact under the prefix
Under(prefix) == {key[2] : key \in {k \in s3 : k[1] = prefix}}

\* C32: the persisted stage of a review only advances: for every review id a
\* profanity/ artifact exists only if the processed/ artifact exists, a
\* final/ artifact only if the profanity/ artifact exists, a record in the
\* reviews table only if the final/ artifact exists; no step removes an
\* artifact or a record.
C32_StageOnlyAdvances ==
    /\ [] ( /\ Under("profanity") \subseteq Under("processed")
            /\ Under("final") \subseteq Under("profanity")
            /\ DOMAIN reviews_table \subseteq Under("final") )
    /\ [][ /\ s3 \subseteq s3'
           /\ DOMAIN reviews_table \subseteq DOMAIN reviews_table' ]_vars

\* C33: a stage handler invoked with an event that carries neither the inline
\* payload nor a non-empty Records list answers statusCode 500 with a
\* message, and that invocation writes to no store.
C33_EmptyEventIsAnError ==
    /\ [] ( last.form \in EmptyForms =>
              /\ last.response.statusCode = 500
              /\ "message" \in DOMAIN last.response.body )
    /\ [][ (runsLeft' < runsLeft /\ last'.form \in EmptyForms) =>
              UNCHANGED <<users, reviews_table, s3>> ]_vars

\* an empty event given to the profanity-check handler after it recorded a
\* violation: the record is as the earlier invocation left it
C33_Witness ==
    /\ last.stage = "profanity"
    /\ last.form = "other_key"
    /\ prev.stage = "profanity"
    /\ prev.form = "inline"
    /\ \E a \in Authors : users[a].profanity_count = 1

\* C34: in every profanity-check result has_profanity is true exactly when
\* profanity_words is not empty, profanity_count is the number of distinct
\* matched terms, however many fields and tokens a term matched in, and
\* clean_review is the negation of has_profanity.
C34_ResultConsistent ==
    (last.stage = "profanity" /\ last.response.statusCode = 200) =>
        LET body == last.response.body
        IN  /\ body.has_profanity <=> body.profanity_words # {}
            /\ body.profanity_count = Cardinality(body.profanity_words)
            /\ body.clean_review = ~body.has_profanity

\* "shit" and "garbage" match in the raw body and among its tokens: two terms
C34_Witness ==
    /\ last.stage = "profanity"
    /\ last.response.statusCode = 200
    /\ last.response.body.has_profanity
    /\ last.response.body.profanity_count = 2
    /\ review_text(content_of(last)) = ProfaneBody

\* the steps of process_review_through_serverless_chain in program order
Rank(label) ==
    CASE label = "upload_raw" -> 1
      [] label = "invoke_preprocessing" -> 2
      [] label = "upload_processed" -> 3
      [] label = "invoke_profanity" -> 4
      [] label = "h_get_item" -> 5
      [] label = "h_put_item" -> 6
      [] label = "upload_profanity" -> 7
      [] label = "invoke_sentiment" -> 8
      [] label = "upload_final" -> 9
      [] label = "store_review" -> 10
      [] label = "o_get_item" -> 11
      [] label = "o_put_item" -> 12
      [] OTHER -> 0

\* C35: every call of process_review_through_serverless_chain ends, returning
\* the final result or None, and each step it takes moves it strictly forward
\* in program order (preprocessing, then profanity, then sentiment; no step,
\* and so no stage invocation, is taken twice)
C35_ChainTerminatesInOrder ==
    /\ \A w \in Workers :
          (pc[w] # "idle" /\ kind[w] = "chain")
              ~> (pc[w] = "idle" /\ ret[w] \in {"final", "None"})
    /\ [][\A w \in pool :
            (pc[w] # "idle" /\ kind[w] = "chain") =>
                \/ pc'[w] = "idle" /\ ret'[w] \in {"final", "None"}
                \/ Rank(pc'[w]) > Rank(pc[w])]_vars

\* a call went through the three stages and returned the final result
C35_Witness ==
    /\ runsLeft = 0
    /\ pc["w1"] = "idle"
    /\ ret["w1"] = "final"
    /\ \E id \in s3 : id[1] = "final"
    /\ \E id \in s3 : id[1] = "profanity"
    /\ \E id \in s3 : id[1] = "processed"

\* C36: once process_dataset_batch has returned there is exactly one result
\* for every submitted review, and processed_reviews + failed_reviews is the
\* number of reviews submitted
C36_StatisticsAddUp ==
    returned =>
        /\ Len(results) = MaxBatch
        /\ \A i \in Indices :
              Cardinality({n \in 1..Len(results) : results[n].review_index = i}) = 1
        /\ stats.processed_reviews + stats.failed_reviews = MaxBatch

\* the authors of the batch whose record carries the ban flag
BannedAuthors == {a \in DOMAIN stats.user_profanity_counts : users[a].is_banned}

\* C37: once the batch has returned, banned_users is the number of distinct
\* authors whose ban flag is set
C37_BannedUsersAreDistinctAuthors ==
    returned => stats.banned_users = Cardinality(BannedAuthors)
====
